---- MODULE Spec2Model ----
(***************************************************************************)
(* A model of the constraint-based type inferencer of js-slang             *)
(* (src/src/typeChecker/typeChecker.ts, first typeCheck definition).       *)
(*                                                                         *)
(* Type terms are records shaped like the TypeScript objects.  A Variable  *)
(* object is identified by its name: every Variable the inferencer hands   *)
(* to the unifier is minted with a name of its own (tVar(typeIdCounter),   *)
(* freshTypeVar), and one object is shared by all its occurrences, so the  *)
(* reference comparisons of the source (LHS === RHS.tailType) are          *)
(* comparisons of names.  The mutable field Variable.constraint is kept    *)
(* in the map `kinds`, name -> "none" | "addable".                         *)
(*                                                                         *)
(* A throwing function is modelled by the field `err` of the threaded      *)
(* record: a call that finds err set returns at once, as an exception      *)
(* unwinds; what was pushed to the (shared, mutable) constraint array      *)
(* before the throw stays pushed.                                          *)
(***************************************************************************)
EXTENDS Integers, Sequences, FiniteSets, TLC

VARIABLES
  constraints,   \* the Constraint[] array: a sequence of <<Variable, Type>>
  kinds,         \* Variable.constraint of every Variable object, by name
  lastCall,      \* the last call made on the store and its arguments
  lastErr,       \* the error the last call threw ([name |-> "none"] if none)
  lastVal,       \* the value the last applyConstraints call returned
  prevConstraints, \* the store as it was before the last call
  prevKinds,     \* the kinds as they were before the last call
  calls,         \* number of calls made so far
  source,        \* the program as parsed, before any typeCheck
  ast,           \* the AST object the caller holds; typeCheck annotates it in place
  typeIdCounter, \* module variable typeIdCounter
  typeErrors,    \* module variable typeErrors
  diagnostics,   \* the list the last typeCheck of the program returned
  thrown,        \* what the last typeCheck of the program threw
  first,         \* outcome of the first typeCheck of the program
  runs,          \* number of typeCheck calls made so far
  lastRun,       \* what the last typeCheck call was made on
  rechecked,     \* how the held AST was last checked again, if it was
  envs,          \* the Env objects of the last typeCheck of the program;
                 \* envs[1] is the module's initialEnv
  rebound,       \* the scopes whose given Env that typeCheck changed
  moduleEnv,     \* the initialEnv object of the substitution-based checker
  returned       \* what the last substitution-based typeCheck returned

storeVars == <<constraints, lastCall, lastErr, lastVal, prevConstraints, prevKinds, calls>>
typeCheckVars == <<source, ast, typeIdCounter, typeErrors, diagnostics, thrown, first, runs, lastRun, rechecked,
                   envs, rebound>>
typeCheck2Vars == <<moduleEnv, returned>>
vars == <<storeVars, kinds, typeCheckVars, typeCheck2Vars>>

-----------------------------------------------------------------------------
(* Bounds *)

\* Number of addToConstraintList / applyConstraints calls in one behaviour.
MaxCalls == 2

\* Depth of nested calls the model follows before it reports OutOfFuel.
Fuel == 40

\* Number of statements of a program.
MaxStatements == 2

\* Number of pair(...) calls of a chain pair(e1, pair(e2, ... null)).
MaxChain == 3

\* Number of typeCheck calls in one behaviour.
MaxRuns == 3

\* Number of type variables typeIdCounter has issued when the first schema is
\* instantiated.
MaxIssued == 2

\* Number of extractFreeVariablesAndGenFresh calls in one behaviour.
MaxInstantiations == 2

\* Number of statements of a body given to returnBlockValueNodeIndexFor.
MaxBody == 3

-----------------------------------------------------------------------------
(* Type terms: tPrimitive, tVar, tPair, tList, tArray, tFunc *)

tPrimitive(name) == [kind |-> "primitive", name |-> name]
tVar(name) == [kind |-> "variable", name |-> name]
tPair(var1, var2) == [kind |-> "pair", headType |-> var1, tailType |-> var2]
tList(var1) == [kind |-> "list", elementType |-> var1]
tArray(var1) == [kind |-> "array", elementType |-> var1]
tFunc(parameterTypes, returnType) ==
  [kind |-> "function", parameterTypes |-> parameterTypes, returnType |-> returnType]

tBool == tPrimitive("boolean")
tNumber == tPrimitive("number")
tString == tPrimitive("string")
tUndef == tPrimitive("undefined")

\* JavaScript's null, as getListType returns it for a non-list.
Null == [kind |-> "null"]

isPair(type) == type.kind = "pair"
isList(type) == type.kind = "list"
getListType(type) == IF isList(type) THEN type.elementType ELSE Null

-----------------------------------------------------------------------------
(* Errors *)

NoError == [name |-> "none"]
UnifyError(LHS, RHS) == [name |-> "UnifyError", LHS |-> LHS, RHS |-> RHS]
InternalCyclicReferenceError(name) == [name |-> "InternalCyclicReferenceError", variable |-> name]
InternalDifferentNumberArgumentsError(numExpectedArgs, numReceived) ==
  [name |-> "InternalDifferentNumberArgumentsError",
   numExpectedArgs |-> numExpectedArgs, numReceived |-> numReceived]
\* Not an error of the program: the model's recursion budget ran out.
OutOfFuel == [name |-> "OutOfFuel"]

Ok(st) == st.err.name = "none"
Throw(st, e) == [st EXCEPT !.err = e]
Return(st, v) == [st EXCEPT !.val = v]

-----------------------------------------------------------------------------
(* contains *)

RECURSIVE contains(_, _)
contains(type, name) ==
  CASE type.kind = "primitive" -> FALSE
    [] type.kind = "pair" ->
         contains(type.headType, name) \/ contains(type.tailType, name)
    [] type.kind \in {"array", "list"} -> contains(type.elementType, name)
    [] type.kind = "variable" -> type.name = name
    [] type.kind = "function" ->
         (\E i \in DOMAIN type.parameterTypes : contains(type.parameterTypes[i], name))
         \/ contains(type.returnType, name)

\* Index of the first constraint whose left side is named `name`, 0 if none:
\* the `for (const constraint of constraints)` scans of the source.
firstOnLeft(cs, name) ==
  IF \E i \in DOMAIN cs : cs[i][1].name = name
    THEN CHOOSE i \in DOMAIN cs :
           /\ cs[i][1].name = name
           /\ \A j \in 1..(i - 1) : cs[j][1].name # name
    ELSE 0

cannotBeResolvedIfAddable(ks, LHS, RHS) ==
  /\ ks[LHS.name] = "addable"
  /\ RHS.kind # "variable"
  /\ ~(RHS.kind = "primitive" /\ (RHS.name = "string" \/ RHS.name = "number"))

-----------------------------------------------------------------------------
(* applyConstraints, __applyConstraints, addToConstraintList,              *)
(* occursOnLeftInConstraintList.                                           *)
(*                                                                         *)
(* Each takes and returns the threaded record st, of which it reads and    *)
(* writes st.cs (the constraint array, mutated in place by the source),    *)
(* st.kinds (Variable.constraint), st.err (the exception in flight) and    *)
(* st.val (the value returned).  The last parameter bounds the depth of    *)
(* nested calls.                                                           *)

\* Calls of applyConstraints, addToConstraintList, traverse, infer and
\* typeCheck, from wherever they are made, go through invoke (defined once
\* all five are), which stands for the call itself.
RECURSIVE invoke(_, _)

RECURSIVE applyConstraints(_, _, _)
RECURSIVE __applyConstraints(_, _, _)
RECURSIVE applyConstraintsToEach(_, _, _, _)
RECURSIVE addToConstraintList(_, _, _, _)
RECURSIVE addToConstraintListEach(_, _, _, _, _)
RECURSIVE occursOnLeftInConstraintList(_, _, _, _)

\* applyConstraints without its two normalisations (lines 330-348 left out).
applyConstraintsUnnormalised(st, type, fuel) == __applyConstraints(st, type, fuel)

applyConstraints(st, type, fuel) ==
  IF fuel = 0 THEN Throw(st, OutOfFuel) ELSE
  LET r == __applyConstraints(st, type, fuel - 1) IN
  IF ~Ok(r) THEN r ELSE
  LET result == r.val IN
  IF isList(result)
    THEN Return(r, tPair(getListType(result), result))
  ELSE IF isPair(result) /\ isPair(result.tailType)
          /\ getListType(result.tailType.tailType) # Null
    THEN LET tail == result.tailType
             a1 == invoke("addToConstraintList", <<r, tail.headType, getListType(tail.tailType), fuel - 1>>)
         IN IF ~Ok(a1) THEN a1 ELSE
            LET a2 == invoke("addToConstraintList", <<a1, tail.headType, result.headType, fuel - 1>>)
            IN IF ~Ok(a2) THEN a2 ELSE __applyConstraints(a2, tail, fuel - 1)
  ELSE r

\* parameterTypes.map(fromType => applyConstraints(fromType, constraints)),
\* left to right from index i; st.val accumulates the mapped array.
applyConstraintsToEach(st, types, i, fuel) ==
  IF i > Len(types) THEN st ELSE
  LET r == invoke("applyConstraints", <<st, types[i], fuel>>) IN
  IF ~Ok(r) THEN r
  ELSE applyConstraintsToEach(Return(r, Append(st.val, r.val)), types, i + 1, fuel)

__applyConstraints(st, type, fuel) ==
  IF fuel = 0 THEN Throw(st, OutOfFuel) ELSE
  CASE type.kind = "primitive" -> Return(st, type)
    [] type.kind = "pair" ->
         LET h == __applyConstraints(st, type.headType, fuel - 1) IN
         IF ~Ok(h) THEN h ELSE
         LET t == __applyConstraints(h, type.tailType, fuel - 1) IN
         IF ~Ok(t) THEN t ELSE Return(t, tPair(h.val, t.val))
    [] type.kind = "list" ->
         LET e == __applyConstraints(st, type.elementType, fuel - 1) IN
         IF ~Ok(e) THEN e ELSE Return(e, tList(e.val))
    [] type.kind = "array" ->
         LET e == __applyConstraints(st, type.elementType, fuel - 1) IN
         IF ~Ok(e) THEN e ELSE Return(e, tArray(e.val))
    [] type.kind = "variable" ->
         LET i == firstOnLeft(st.cs, type.name) IN
         IF i = 0 THEN Return(st, type) ELSE
         LET LHS == st.cs[i][1]
             RHS == st.cs[i][2]
         IN IF contains(RHS, LHS.name)
              THEN IF isPair(RHS) /\ LHS = RHS.tailType
                     THEN Return(st, tList(RHS.headType))
                   ELSE IF LHS = getListType(RHS)
                     THEN Return(st, tList(LHS))
                   ELSE Throw(st, InternalCyclicReferenceError(type.name))
              ELSE invoke("applyConstraints", <<st, RHS, fuel - 1>>)
    [] type.kind = "function" ->
         LET ps == applyConstraintsToEach(Return(st, <<>>), type.parameterTypes, 1, fuel - 1) IN
         IF ~Ok(ps) THEN ps ELSE
         LET r == invoke("applyConstraints", <<ps, type.returnType, fuel - 1>>) IN
         IF ~Ok(r) THEN r ELSE Return(r, tFunc(ps.val, r.val))

\* occursOnLeftInConstraintList with constraints.unshift in place of
\* constraints.push: the new entry goes in front of the store.
occursOnLeftPrepending(st, LHS, RHS, fuel) ==
  IF fuel = 0 THEN Throw(st, OutOfFuel) ELSE
  LET i == firstOnLeft(st.cs, LHS.name) IN
  IF i # 0
    THEN invoke("addToConstraintList", <<st, RHS, st.cs[i][2], fuel - 1>>)
    ELSE LET tighten == /\ RHS.kind = "variable"
                        /\ st.kinds[LHS.name] = "addable"
                        /\ st.kinds[RHS.name] = "none"
             ks == IF tighten THEN [st.kinds EXCEPT ![RHS.name] = st.kinds[LHS.name]]
                   ELSE st.kinds
         IN [st EXCEPT !.kinds = ks,
                       !.cs = IF LHS # RHS THEN <<<<LHS, RHS>>>> \o @ ELSE @]

\* occursOnLeftInConstraintList without lines 453-460: RHS.constraint is
\* left as it is.
occursOnLeftKeepingConstraint(st, LHS, RHS, fuel) ==
  IF fuel = 0 THEN Throw(st, OutOfFuel) ELSE
  LET i == firstOnLeft(st.cs, LHS.name) IN
  IF i # 0
    THEN invoke("addToConstraintList", <<st, RHS, st.cs[i][2], fuel - 1>>)
    ELSE [st EXCEPT !.cs = IF LHS # RHS THEN Append(@, <<LHS, RHS>>) ELSE @]

occursOnLeftInConstraintList(st, LHS, RHS, fuel) ==
  IF fuel = 0 THEN Throw(st, OutOfFuel) ELSE
  LET i == firstOnLeft(st.cs, LHS.name) IN
  IF i # 0
    THEN \* when LHS occurs earlier in original constrain list
         invoke("addToConstraintList", <<st, RHS, st.cs[i][2], fuel - 1>>)
    ELSE LET tighten == /\ RHS.kind = "variable"
                        /\ st.kinds[LHS.name] = "addable"
                        /\ st.kinds[RHS.name] = "none"
             ks == IF tighten THEN [st.kinds EXCEPT ![RHS.name] = st.kinds[LHS.name]]
                   ELSE st.kinds
         IN [st EXCEPT !.kinds = ks,
                       !.cs = IF LHS # RHS THEN Append(@, <<LHS, RHS>>) ELSE @]

\* The loop over the parameter types of two function types, from index i.
addToConstraintListEach(st, lefts, rights, i, fuel) ==
  IF i > Len(lefts) THEN st ELSE
  LET r == invoke("addToConstraintList", <<st, lefts[i], rights[i], fuel>>) IN
  IF ~Ok(r) THEN r ELSE addToConstraintListEach(r, lefts, rights, i + 1, fuel)

addToConstraintList(st, LHS, RHS, fuel) ==
  IF fuel = 0 THEN Throw(st, OutOfFuel) ELSE
  IF LHS.kind = "primitive" /\ RHS.kind = "primitive" /\ LHS.name = RHS.name
    THEN st
  ELSE IF LHS.kind = "array" /\ RHS.kind = "array"
    THEN invoke("addToConstraintList", <<st, LHS.elementType, RHS.elementType, fuel - 1>>)
  ELSE IF LHS.kind = "list" /\ RHS.kind = "list"
    THEN invoke("addToConstraintList", <<st, LHS.elementType, RHS.elementType, fuel - 1>>)
  ELSE IF LHS.kind = "pair" /\ RHS.kind = "list"
    THEN \* swap so that we hit the below rule
         invoke("addToConstraintList", <<st, RHS, LHS, fuel - 1>>)
  ELSE IF LHS.kind = "list" /\ RHS.kind = "pair"
    THEN invoke("addToConstraintList", <<st, RHS, tPair(LHS.elementType, LHS), fuel - 1>>)
  ELSE IF LHS.kind = "pair" /\ RHS.kind = "pair"
    THEN LET h == invoke("addToConstraintList", <<st, LHS.headType, RHS.headType, fuel - 1>>) IN
         IF ~Ok(h) THEN h
         ELSE invoke("addToConstraintList", <<h, LHS.tailType, RHS.tailType, fuel - 1>>)
  ELSE IF LHS.kind = "variable"
    THEN IF RHS.kind = "variable" /\ RHS.name = LHS.name
           THEN st
         ELSE IF contains(RHS, LHS.name)
           THEN IF isPair(RHS) /\ (LHS = RHS.tailType \/ LHS = getListType(RHS.tailType))
                  THEN \* T1 = Pair<T2, T1> ===> T1 = List<T2>
                       invoke("addToConstraintList", <<st, LHS, tList(RHS.headType), fuel - 1>>)
                ELSE IF LHS = getListType(RHS)
                  THEN [st EXCEPT !.cs = Append(@, <<LHS, RHS>>)]
                ELSE Throw(st, InternalCyclicReferenceError(LHS.name))
         ELSE IF cannotBeResolvedIfAddable(st.kinds, LHS, RHS)
           THEN Throw(st, UnifyError(LHS, RHS))
         ELSE LET a == invoke("applyConstraints", <<st, RHS, fuel - 1>>) IN
              IF ~Ok(a) THEN a
              ELSE occursOnLeftInConstraintList(a, LHS, a.val, fuel - 1)
  ELSE IF RHS.kind = "variable"
    THEN \* swap around so the type var is on the left hand side
         invoke("addToConstraintList", <<st, RHS, LHS, fuel - 1>>)
  ELSE IF LHS.kind = "function" /\ RHS.kind = "function"
    THEN IF Len(LHS.parameterTypes) # Len(RHS.parameterTypes)
           THEN Throw(st, InternalDifferentNumberArgumentsError(
                            Len(RHS.parameterTypes), Len(LHS.parameterTypes)))
         ELSE LET ps == addToConstraintListEach(st, LHS.parameterTypes,
                                                RHS.parameterTypes, 1, fuel - 1)
              IN IF ~Ok(ps) THEN ps
                 ELSE invoke("addToConstraintList", <<ps, LHS.returnType, RHS.returnType, fuel - 1>>)
  ELSE Throw(st, UnifyError(LHS, RHS))


-----------------------------------------------------------------------------
(* Type schemas, fresh variables and instantiation                         *)

tForAll(type) == [kind |-> "forall", polyType |-> type]

\* tVar(name) names the Variable `T${name}`.
varName(n) == "T" \o ToString(n)

\* A new Variable object made by tVar: its constraint is 'none'.
newVariable(st, name) == [st EXCEPT !.kinds = (name :> "none") @@ @]

\* tVar(typeIdCounter++)
nextTVar(st) ==
  LET name == varName(st.typeIdCounter) IN
  [newVariable(st, name) EXCEPT !.typeIdCounter = @ + 1, !.val = tVar(name)]

\* freshTypeVar returning tVar(typeIdCounter++) in place of the copy of
\* typeVar: the new variable's constraint is 'none'.
freshTypeVarWithoutConstraint(st, typeVar) ==
  LET name == varName(st.typeIdCounter) IN
  [st EXCEPT !.kinds = (name :> "none") @@ @,
             !.typeIdCounter = @ + 1,
             !.val = tVar(name)]

\* freshTypeVar: a copy {...typeVar, name: `T${typeIdCounter++}`}, which
\* takes over the constraint typeVar has at this moment.
freshTypeVar(st, typeVar) ==
  LET name == varName(st.typeIdCounter) IN
  [st EXCEPT !.kinds = (name :> st.kinds[typeVar.name]) @@ @,
             !.typeIdCounter = @ + 1,
             !.val = tVar(name)]

RECURSIVE fresh(_, _)
fresh(monoType, subst) ==
  CASE monoType.kind = "primitive" -> monoType
    [] monoType.kind = "list" -> tList(fresh(monoType.elementType, subst))
    [] monoType.kind = "array" -> tArray(fresh(monoType.elementType, subst))
    [] monoType.kind = "pair" ->
         tPair(fresh(monoType.headType, subst), fresh(monoType.tailType, subst))
    [] monoType.kind = "variable" -> subst[monoType.name]
    [] monoType.kind = "function" ->
         tFunc([i \in DOMAIN monoType.parameterTypes |->
                  fresh(monoType.parameterTypes[i], subst)],
               fresh(monoType.returnType, subst))

\* Union of free type variables: a, then what of b is not yet in it by name.
RECURSIVE union(_, _)
union(a, b) ==
  IF b = <<>> THEN a
  ELSE union(IF \E i \in DOMAIN a : a[i].name = Head(b).name THEN a
             ELSE Append(a, Head(b)),
             Tail(b))

RECURSIVE freeTypeVarsInType(_)
RECURSIVE freeTypeVarsInTypes(_, _)
freeTypeVarsInType(type) ==
  CASE type.kind = "primitive" -> <<>>
    [] type.kind = "list" -> freeTypeVarsInType(type.elementType)
    [] type.kind = "array" -> freeTypeVarsInType(type.elementType)
    [] type.kind = "pair" ->
         union(freeTypeVarsInType(type.headType), freeTypeVarsInType(type.tailType))
    [] type.kind = "variable" -> <<type>>
    [] type.kind = "function" ->
         union(freeTypeVarsInTypes(<<>>, type.parameterTypes),
               freeTypeVarsInType(type.returnType))

\* parameterTypes.reduce((acc, currentType) => union(acc, freeTypeVarsInType(currentType)), [])
freeTypeVarsInTypes(acc, types) ==
  IF types = <<>> THEN acc
  ELSE freeTypeVarsInTypes(union(acc, freeTypeVarsInType(Head(types))), Tail(types))

\* freeTypeVars.forEach(val => substitutions[val.name] = freshTypeVar(val));
\* st.val accumulates the substitutions.
RECURSIVE genFresh(_, _)
genFresh(st, freeTypeVars) ==
  IF freeTypeVars = <<>> THEN st
  ELSE LET v == Head(freeTypeVars)
           f == freshTypeVar(st, v)
       IN genFresh(Return(f, (v.name :> f.val) @@ st.val), Tail(freeTypeVars))

extractFreeVariablesAndGenFresh(st, polyType) ==
  LET monoType == polyType.polyType
      freeTypeVars == freeTypeVarsInType(monoType)
      substitutions == genFresh(Return(st, <<>>), freeTypeVars)
  IN Return(substitutions, fresh(monoType, substitutions.val))

-----------------------------------------------------------------------------
(* The initial type environment                                            *)

NEGATIVE_OP == "-_1"

tAddable(name) == tVar(name)

headType == tVar("TheadType")
tailType == tVar("TtailType")

numberFunc1 == tFunc(<<tNumber>>, tNumber)
numberFunc2 == tFunc(<<tNumber, tNumber>>, tNumber)
predicateFunc == tForAll(tFunc(<<tVar("TT")>>, tBool))
comparisonFunc == tForAll(tFunc(<<tAddable("A"), tAddable("A")>>, tBool))

predeclaredNames == <<
  <<"Infinity", tNumber>>, <<"NaN", tNumber>>, <<"undefined", tUndef>>,
  <<"math_LN2", tNumber>>, <<"math_LN10", tNumber>>, <<"math_LOG2E", tNumber>>,
  <<"math_LOG10E", tNumber>>, <<"math_PI", tNumber>>, <<"math_SQRT1_2", tNumber>>,
  <<"math_SQRT2", tNumber>>,
  <<"is_boolean", predicateFunc>>, <<"is_number", predicateFunc>>,
  <<"is_string", predicateFunc>>, <<"is_undefined", predicateFunc>>,
  <<"math_abs", numberFunc1>>, <<"math_acos", numberFunc1>>, <<"math_acosh", numberFunc1>>,
  <<"math_asin", numberFunc1>>, <<"math_asinh", numberFunc1>>, <<"math_atan", numberFunc1>>,
  <<"math_atan2", numberFunc2>>, <<"math_atanh", numberFunc1>>, <<"math_cbrt", numberFunc1>>,
  <<"math_ceil", numberFunc1>>, <<"math_clz32", numberFunc1>>, <<"math_cos", numberFunc1>>,
  <<"math_cosh", numberFunc1>>, <<"math_exp", numberFunc1>>, <<"math_expm1", numberFunc1>>,
  <<"math_floor", numberFunc1>>, <<"math_fround", numberFunc1>>,
  <<"math_hypot", tForAll(tVar("TT"))>>, <<"math_imul", numberFunc2>>,
  <<"math_log", numberFunc1>>, <<"math_log1p", numberFunc1>>, <<"math_log2", numberFunc1>>,
  <<"math_log10", numberFunc1>>, <<"math_max", tForAll(tVar("TT"))>>,
  <<"math_min", tForAll(tVar("TT"))>>, <<"math_pow", numberFunc2>>,
  <<"math_random", tFunc(<<>>, tNumber)>>, <<"math_round", numberFunc1>>,
  <<"math_sign", numberFunc1>>, <<"math_sin", numberFunc1>>, <<"math_sinh", numberFunc1>>,
  <<"math_sqrt", numberFunc1>>, <<"math_tan", numberFunc1>>, <<"math_tanh", numberFunc1>>,
  <<"math_trunc", numberFunc1>>,
  <<"parse_int", tFunc(<<tString, tNumber>>, tNumber)>>,
  <<"prompt", tFunc(<<tString>>, tString)>>,
  <<"runtime", tFunc(<<>>, tNumber)>>,
  <<"stringify", tForAll(tFunc(<<tVar("TT")>>, tString))>>,
  <<"display", tForAll(tVar("TT"))>>, <<"error", tForAll(tVar("TT"))>> >>

pairFuncs == <<
  <<"pair", tForAll(tFunc(<<headType, tailType>>, tPair(headType, tailType)))>>,
  <<"head", tForAll(tFunc(<<tPair(headType, tailType)>>, headType))>>,
  <<"tail", tForAll(tFunc(<<tPair(headType, tailType)>>, tailType))>>,
  <<"is_pair", predicateFunc>>,
  <<"is_null", tForAll(tFunc(<<tPair(headType, tailType)>>, tBool))>>,
  <<"set_head", tForAll(tFunc(<<tPair(headType, tailType), headType>>, tUndef))>>,
  <<"set_tail", tForAll(tFunc(<<tPair(headType, tailType), tailType>>, tUndef))>> >>

arrayFuncs == <<
  <<"is_array", predicateFunc>>,
  <<"array_length", tForAll(tFunc(<<tArray(tVar("TT"))>>, tNumber))>> >>

listFuncs == << <<"list", tForAll(tVar("TT1"))>> >>

primitiveFuncs == <<
  <<NEGATIVE_OP, numberFunc1>>,
  <<"!", tFunc(<<tBool>>, tBool)>>,
  <<"&&", tForAll(tFunc(<<tBool, tVar("TT")>>, tVar("TT")))>>,
  <<"||", tForAll(tFunc(<<tBool, tVar("TT")>>, tVar("TT")))>>,
  <<"===", comparisonFunc>>, <<"!==", comparisonFunc>>, <<"<", comparisonFunc>>,
  <<"<=", comparisonFunc>>, <<">", comparisonFunc>>, <<">=", comparisonFunc>>,
  <<"+", tForAll(tFunc(<<tAddable("A"), tAddable("A")>>, tAddable("A")))>>,
  <<"%", numberFunc2>>, <<"-", numberFunc2>>, <<"*", numberFunc2>>, <<"/", numberFunc2>> >>

initialTypeMappings ==
  predeclaredNames \o pairFuncs \o listFuncs \o arrayFuncs \o primitiveFuncs

\* new Map(entries): a later entry for a key replaces an earlier one.
mapOf(entries) ==
  [k \in {entries[i][1] : i \in DOMAIN entries} |->
     entries[CHOOSE i \in DOMAIN entries :
               /\ entries[i][1] = k
               /\ \A j \in DOMAIN entries : entries[j][1] = k => j <= i][2]]

initialEnv ==
  [typeMap |-> mapOf(initialTypeMappings),
   declKindMap |-> [k \in {initialTypeMappings[i][1] : i \in DOMAIN initialTypeMappings}
                      |-> "const"]]

\* Variable.constraint of the Variable objects the initial environment holds.
initialEnvKinds ==
  [n \in {"A", "TT", "TT1", "TheadType", "TtailType"} |->
     IF n = "A" THEN "addable" ELSE "none"]

\* The Env objects live in st.envs, and an Env is named by its index there:
\* two names of one object are one index, and typeMap.set and declKindMap.set
\* change the object for every holder of it.

\* cloneEnv returning the object it was given in place of a copy.
cloneEnvSharing(st, env) == Return(st, env)

\* st.val names the new object.
cloneEnv(st, env) ==
  Return([st EXCEPT !.envs = Append(@, [typeMap |-> @[env].typeMap,
                                        declKindMap |-> @[env].declKindMap])],
         Len(st.envs) + 1)

\* env.typeMap.set(name, type)
setType(st, env, name, type) ==
  [st EXCEPT !.envs[env].typeMap = (name :> type) @@ @]
\* env.declKindMap.set(name, kind)
setDeclKind(st, env, name, kind) ==
  [st EXCEPT !.envs[env].declKindMap = (name :> kind) @@ @]

-----------------------------------------------------------------------------
(* The typed AST (TypeAnnotatedNode<es.Node>)                              *)
(*                                                                         *)
(* A node is a record with the estree fields the inferencer reads, its     *)
(* source position loc, and the annotations inferredType and typability.   *)
(* A VariableDeclaration holds declarations[0].id.name as id and           *)
(* declarations[0].init as init; a Literal holds typeof value as typeOf.   *)

annotated(fields) ==
  fields @@ [loc |-> 0, inferredType |-> Null, typability |-> "NotYetTyped"]

Program(body) == annotated([type |-> "Program", body |-> body])
BlockStatement(body) == annotated([type |-> "BlockStatement", body |-> body])
ExpressionStatement(expression) ==
  annotated([type |-> "ExpressionStatement", expression |-> expression])
VariableDeclaration(kind, id, init) ==
  annotated([type |-> "VariableDeclaration", kind |-> kind, id |-> id, init |-> init])
FunctionDeclaration(id, params, body) ==
  annotated([type |-> "FunctionDeclaration", id |-> id, params |-> params,
             body |-> body, functionInferredType |-> Null])
ReturnStatement(argument) == annotated([type |-> "ReturnStatement", argument |-> argument])
IfStatement(test, consequent, alternate) ==
  annotated([type |-> "IfStatement", test |-> test, consequent |-> consequent,
             alternate |-> alternate])
WhileStatement(test, body) ==
  annotated([type |-> "WhileStatement", test |-> test, body |-> body])
ForStatement(init, test, update, body) ==
  annotated([type |-> "ForStatement", init |-> init, test |-> test, update |-> update,
             body |-> body])
Literal(typeOf, raw) == annotated([type |-> "Literal", typeOf |-> typeOf, raw |-> raw])
Identifier(name) == annotated([type |-> "Identifier", name |-> name])
UnaryExpression(operator, argument) ==
  annotated([type |-> "UnaryExpression", operator |-> operator, argument |-> argument])
BinaryExpression(operator, left, right) ==
  annotated([type |-> "BinaryExpression", operator |-> operator, left |-> left,
             right |-> right])
LogicalExpression(operator, left, right) ==
  annotated([type |-> "LogicalExpression", operator |-> operator, left |-> left,
             right |-> right])
ConditionalExpression(test, consequent, alternate) ==
  annotated([type |-> "ConditionalExpression", test |-> test,
             consequent |-> consequent, alternate |-> alternate])
CallExpression(callee, arguments) ==
  annotated([type |-> "CallExpression", callee |-> callee, arguments |-> arguments])
ArrowFunctionExpression(params, body) ==
  annotated([type |-> "ArrowFunctionExpression", params |-> params, body |-> body])
AssignmentExpression(left, right) ==
  annotated([type |-> "AssignmentExpression", left |-> left, right |-> right])
ArrayExpression(elements) == annotated([type |-> "ArrayExpression", elements |-> elements])
MemberExpression(object, property) ==
  annotated([type |-> "MemberExpression", object |-> object, property |-> property])

\* The child fields of a node in the order traverse visits them; TRUE marks
\* a field that holds an array of nodes.
childFields(node) ==
  CASE node.type \in {"Program", "BlockStatement"} -> << <<"body", TRUE>> >>
    [] node.type = "UnaryExpression" -> << <<"argument", FALSE>> >>
    [] node.type \in {"LogicalExpression", "BinaryExpression"} ->
         << <<"left", FALSE>>, <<"right", FALSE>> >>
    [] node.type = "ExpressionStatement" -> << <<"expression", FALSE>> >>
    [] node.type = "WhileStatement" -> << <<"test", FALSE>>, <<"body", FALSE>> >>
    [] node.type = "ForStatement" ->
         << <<"init", FALSE>>, <<"test", FALSE>>, <<"update", FALSE>>, <<"body", FALSE>> >>
    [] node.type \in {"ConditionalExpression", "IfStatement"} ->
         << <<"test", FALSE>>, <<"consequent", FALSE>>, <<"alternate", FALSE>> >>
    [] node.type = "CallExpression" -> << <<"callee", FALSE>>, <<"arguments", TRUE>> >>
    [] node.type = "ReturnStatement" -> << <<"argument", FALSE>> >>
    [] node.type = "VariableDeclaration" -> << <<"init", FALSE>> >>
    [] node.type \in {"ArrowFunctionExpression", "FunctionDeclaration"} ->
         << <<"params", TRUE>>, <<"body", FALSE>> >>
    [] node.type = "AssignmentExpression" -> << <<"left", FALSE>>, <<"right", FALSE>> >>
    [] node.type = "ArrayExpression" -> << <<"elements", TRUE>> >>
    [] node.type = "MemberExpression" -> << <<"object", FALSE>>, <<"property", FALSE>> >>
    [] OTHER -> <<>>

\* The parser's node.loc: nodes are numbered from n in source order, a node
\* before the nodes it contains.  st is [next, val].
RECURSIVE locate(_, _)
RECURSIVE locateFields(_, _, _, _)
RECURSIVE locateEach(_, _, _, _)
locate(n, node) ==
  locateFields(n + 1, [node EXCEPT !.loc = n], childFields(node), 1)

locateFields(n, node, fields, i) ==
  IF i > Len(fields) THEN [next |-> n, val |-> node]
  ELSE LET f == fields[i][1] IN
       IF fields[i][2]
         THEN LET r == locateEach(n, node[f], 1, <<>>) IN
              locateFields(r.next, [node EXCEPT ![f] = r.val], fields, i + 1)
         ELSE LET r == locate(n, node[f]) IN
              locateFields(r.next, [node EXCEPT ![f] = r.val], fields, i + 1)

locateEach(n, nodes, i, acc) ==
  IF i > Len(nodes) THEN [next |-> n, val |-> acc]
  ELSE LET r == locate(n, nodes[i]) IN
       locateEach(r.next, nodes, i + 1, Append(acc, r.val))

parse(program) == locate(0, program).val

-----------------------------------------------------------------------------
(* Diagnostics (src/src/errors/typeErrors.ts); node is the node's loc      *)

TypeError(node, e) == [kind |-> "TypeError", node |-> node.loc, error |-> e]
CyclicReferenceError(node) == [kind |-> "CyclicReference", node |-> node.loc]
InvalidArgumentTypesError(node, args, expectedTypes, receivedTypes) ==
  [kind |-> "InvalidArgumentTypes", node |-> node.loc,
   args |-> [i \in DOMAIN args |-> args[i].loc],
   expectedTypes |-> expectedTypes, receivedTypes |-> receivedTypes]
DifferentNumberArgumentsError(node, numExpectedArgs, numReceived) ==
  [kind |-> "DifferentNumberArguments", node |-> node.loc,
   numExpectedArgs |-> numExpectedArgs, numReceived |-> numReceived]
InvalidTestConditionError(node, receivedType) ==
  [kind |-> "InvalidTestCondition", node |-> node.loc, receivedType |-> receivedType]
ConsequentAlternateMismatchError(node, consequentType, alternateType) ==
  [kind |-> "ConsequentAlternateMismatch", node |-> node.loc,
   consequentType |-> consequentType, alternateType |-> alternateType]
DifferentAssignmentError(node, expectedType, receivedType) ==
  [kind |-> "DifferentAssignment", node |-> node.loc,
   expectedType |-> expectedType, receivedType |-> receivedType]
ReassignConstError(node) == [kind |-> "ReassignConst", node |-> node.loc]
ArrayAssignmentError(node, arrayType, receivedType) ==
  [kind |-> "ArrayAssignment", node |-> node.loc,
   arrayType |-> arrayType, receivedType |-> receivedType]
InvalidArrayIndexType(node, receivedType) ==
  [kind |-> "InvalidArrayIndexType", node |-> node.loc, receivedType |-> receivedType]
UndefinedIdentifierError(node, name) ==
  [kind |-> "UndefinedIdentifier", node |-> node.loc, name |-> name]

\* typeErrors.push(error)
pushTypeError(st, error) == [st EXCEPT !.typeErrors = Append(@, error)]

InternalTypeError(message) == [name |-> "InternalTypeError", message |-> message]

\* e instanceof InternalTypeError
isInternalTypeError(e) ==
  e.name \in {"InternalTypeError", "UnifyError", "InternalDifferentNumberArgumentsError",
              "InternalCyclicReferenceError"}

\* catch (e) { ... } with no rethrow: the exception is gone.
caught(st) == [st EXCEPT !.err = NoError]

-----------------------------------------------------------------------------
(* traverse: the annotation pass (constraints undefined) and the           *)
(* resolution pass (constraints given).  st.val is the node as traverse    *)
(* leaves it.  Every exception is caught inside traverse.                  *)

RECURSIVE traverse(_, _, _)
RECURSIVE traverseFields(_, _, _, _, _)
RECURSIVE traverseEach(_, _, _, _, _)

\* Lines 51-63: resolve or annotate node.inferredType.
traverseNode(st, node, withConstraints) ==
  IF withConstraints /\ node.typability # "Untypable"
    THEN LET r == invoke("applyConstraints", <<st, node.inferredType, Fuel>>) IN
         IF Ok(r)
           THEN Return(r, [node EXCEPT !.inferredType = r.val, !.typability = "Typed"])
           ELSE Return(IF isInternalTypeError(r.err)
                          /\ r.err.name # "InternalCyclicReferenceError"
                         THEN pushTypeError(caught(r), TypeError(node, r.err))
                         ELSE caught(r),
                       node)
    ELSE LET v == nextTVar(st) IN Return(v, [node EXCEPT !.inferredType = v.val])

\* Lines 137-154: the FunctionDeclaration's functionInferredType.
traverseFuncDecl(st, node, withConstraints) ==
  LET s1 ==
        IF withConstraints
          THEN LET r == invoke("applyConstraints", <<st, node.functionInferredType, Fuel>>) IN
               IF Ok(r) THEN Return(r, [node EXCEPT !.functionInferredType = r.val])
               ELSE Return(IF r.err.name = "InternalCyclicReferenceError"
                             THEN pushTypeError(caught(r), CyclicReferenceError(node))
                           ELSE IF isInternalTypeError(r.err)
                             THEN pushTypeError(caught(r), TypeError(node, r.err))
                           ELSE caught(r),
                           node)
          ELSE LET name == varName(st.typeIdCounter) IN
               Return(newVariable(st, name),
                      [node EXCEPT !.functionInferredType = tVar(name)])
  IN [s1 EXCEPT !.typeIdCounter = @ + 1]

traverse(st, node, withConstraints) ==
  LET s1 == traverseNode(st, node, withConstraints)
      s2 == IF node.type = "FunctionDeclaration"
              THEN traverseFuncDecl(s1, s1.val, withConstraints)
              ELSE s1
  IN traverseFields(s2, s2.val, childFields(node), 1, withConstraints)

traverseFields(st, node, fields, i, withConstraints) ==
  IF i > Len(fields) THEN Return(st, node)
  ELSE LET f == fields[i][1]
           r == IF fields[i][2]
                  THEN traverseEach(st, node[f], 1, <<>>, withConstraints)
                  ELSE invoke("traverse", <<st, node[f], withConstraints>>)
       IN traverseFields(r, [node EXCEPT ![f] = r.val], fields, i + 1, withConstraints)

traverseEach(st, nodes, i, acc, withConstraints) ==
  IF i > Len(nodes) THEN Return(st, acc)
  ELSE LET r == invoke("traverse", <<st, nodes[i], withConstraints>>) IN
       traverseEach(r, nodes, i + 1, Append(acc, r.val), withConstraints)

-----------------------------------------------------------------------------
(* Which statement gives a block its value                                 *)

\* statementHasReturn without its IfStatement, BlockStatement and loop cases.
statementIsReturn(node) == node.type = "ReturnStatement"

RECURSIVE statementHasReturn(_)
statementHasReturn(node) ==
  CASE node.type = "IfStatement" ->
         statementHasReturn(node.consequent) \/ statementHasReturn(node.alternate)
    [] node.type = "BlockStatement" ->
         \E i \in DOMAIN node.body : statementHasReturn(node.body[i])
    [] node.type \in {"ForStatement", "WhileStatement"} -> statementHasReturn(node.body)
    [] node.type = "ReturnStatement" -> TRUE
    [] OTHER -> FALSE

RECURSIVE stmtHasValueReturningStmt(_)
stmtHasValueReturningStmt(node) ==
  CASE node.type = "ExpressionStatement" -> TRUE
    [] node.type = "IfStatement" ->
         stmtHasValueReturningStmt(node.consequent)
           \/ stmtHasValueReturningStmt(node.alternate)
    [] node.type = "BlockStatement" ->
         \E i \in DOMAIN node.body : stmtHasValueReturningStmt(node.body[i])
    [] node.type \in {"ForStatement", "WhileStatement"} ->
         stmtHasValueReturningStmt(node.body)
    [] OTHER -> FALSE

\* Indices are the source's: 0 .. body.length - 1, and -1 for "none".
returnBlockValueNodeIndexFor(node, isTopLevelAndLastValStmt) ==
  LET lastStatementIndex == Len(node.body) - 1 IN
  IF isTopLevelAndLastValStmt
    THEN LET valued == {i \in 0..lastStatementIndex :
                          stmtHasValueReturningStmt(node.body[i + 1])} IN
         IF valued # {} THEN CHOOSE i \in valued : \A j \in valued : j <= i
         ELSE lastStatementIndex
    ELSE LET found == {i \in 0..lastStatementIndex :
                         i = lastStatementIndex \/ statementHasReturn(node.body[i + 1])} IN
         IF found # {} THEN CHOOSE i \in found : \A j \in found : i <= j
         ELSE -1

-----------------------------------------------------------------------------
(* infer: the constraint-generation pass.  The Constraint[] array is one   *)
(* object throughout (st.cs): `constraints` and `newConstraints` name it   *)
(* alike.  The environment is a value local to each scope.                 *)

\* What JavaScript throws on reading a property of undefined.
JSTypeError == [name |-> "TypeError"]
\* throw Error('Unexpected literal type')
UnexpectedLiteralType == [name |-> "Error"]

RECURSIVE infer(_, _, _, _)

\* argNodes.forEach(argNode => { infer(argNode); receivedTypes.push(applyConstraints(...)) });
\* st.val accumulates receivedTypes.
RECURSIVE inferArgNodes(_, _, _, _)
inferArgNodes(st, argNodes, env, i) ==
  IF i > Len(argNodes) THEN st
  ELSE LET receivedTypes == st.val
           c == invoke("infer", <<st, argNodes[i], env, FALSE>>)
       IN IF ~Ok(c) THEN c
          ELSE LET r == invoke("applyConstraints", <<c, argNodes[i].inferredType, Fuel>>) IN
               IF ~Ok(r) THEN r
               ELSE inferArgNodes(Return(r, Append(receivedTypes, r.val)), argNodes, env, i + 1)

\* Lines 635-655
inferUnaryExpression(st, node, env) ==
  LET storedType == node.inferredType
      op == IF node.operator = "-" THEN NEGATIVE_OP ELSE node.operator
      funcType == st.envs[env].typeMap[op]
      argNode == node.argument
      argType == argNode.inferredType
      a == inferArgNodes(Return(st, <<>>), <<argNode>>, env, 1)
  IN IF ~Ok(a) THEN a
     ELSE LET receivedTypes == a.val
              c == invoke("addToConstraintList", <<a, tFunc(<<argType>>, storedType), funcType, Fuel>>)
          IN IF Ok(c) THEN c
             ELSE IF c.err.name = "UnifyError"
               THEN pushTypeError(caught(c),
                      InvalidArgumentTypesError(node, <<argNode>>,
                                                funcType.parameterTypes, receivedTypes))
             ELSE caught(c)

\* Lines 656-686
inferBinaryExpression(st, node, env) ==
  IF node.operator \notin DOMAIN st.envs[env].typeMap THEN Throw(st, JSTypeError)
  ELSE
  LET storedType == node.inferredType
      envType == st.envs[env].typeMap[node.operator]
      o == IF envType.kind = "forall" THEN extractFreeVariablesAndGenFresh(st, envType)
           ELSE Return(st, envType)
      opType == o.val
      leftNode == node.left
      leftType == leftNode.inferredType
      rightNode == node.right
      rightType == rightNode.inferredType
      argNodes == <<leftNode, rightNode>>
      a == inferArgNodes(Return(o, <<>>), argNodes, env, 1)
  IN IF ~Ok(a) THEN a
     ELSE LET receivedTypes == a.val
              c == invoke("addToConstraintList", <<a, tFunc(<<leftType, rightType>>, storedType),
                                       opType, Fuel>>)
          IN IF Ok(c) THEN c
             ELSE IF c.err.name = "UnifyError"
               THEN pushTypeError(caught(c),
                      InvalidArgumentTypesError(node, argNodes,
                        IF opType.kind = "function" THEN opType.parameterTypes ELSE Null,
                        receivedTypes))
             ELSE caught(c)

\* Lines 687-689
inferExpressionStatement(st, node, env) ==
  LET c == invoke("addToConstraintList", <<st, node.inferredType, tUndef, Fuel>>) IN
  IF ~Ok(c) THEN c ELSE invoke("infer", <<c, node.expression, env, FALSE>>)

\* Lines 690-697
inferReturnStatement(st, node, env) ==
  LET argNode == node.argument
      c == invoke("addToConstraintList", <<st, node.inferredType, argNode.inferredType, Fuel>>)
  IN IF ~Ok(c) THEN c ELSE invoke("infer", <<c, argNode, env, FALSE>>)

\* Lines 698-713
inferWhileStatement(st, node, env, isTopLevelAndLastValStmt) ==
  LET storedType == node.inferredType
      testNode == node.test
      bodyNode == node.body
      c1 == invoke("addToConstraintList", <<st, testNode.inferredType, tBool, Fuel>>)
  IN IF ~Ok(c1) THEN c1
     ELSE LET c2 == invoke("addToConstraintList", <<c1, storedType, bodyNode.inferredType, Fuel>>) IN
          IF ~Ok(c2) THEN c2
          ELSE LET t == invoke("infer", <<c2, testNode, env, FALSE>>)
                   c3 == IF Ok(t) THEN t
                         ELSE IF t.err.name = "UnifyError"
                           THEN pushTypeError(caught(t),
                                              InvalidTestConditionError(node, t.err.LHS))
                         ELSE caught(t)
               IN invoke("infer", <<c3, bodyNode, env, isTopLevelAndLastValStmt>>)

\* Lines 714-760, in four steps.

\* Lines 725-730: a let or const init gets a scope of its own, a clone of env;
\* st.val names the Env the statement is inferred in.
forScope(st, initNode, env) ==
  IF initNode.type = "VariableDeclaration" /\ initNode.kind # "var"
    THEN cloneEnv(st, env)
    ELSE Return(st, env)

\* Lines 737-745: the declared name is bound to the schema of its type.
generaliseForInit(st, initNode, newEnv) ==
  IF ~Ok(st) THEN st
  ELSE setType(st, newEnv, initNode.id, tForAll(st.val))

\* Lines 731-749; st.val names newEnv.
inferForInit(st, initNode, env) ==
  IF st.val = env THEN invoke("infer", <<st, initNode, env, FALSE>>)
  ELSE
  LET newEnv == st.val
      initType == initNode.init.inferredType
      declared == setDeclKind(setType(st, newEnv, initNode.id, initType),
                              newEnv, initNode.id, initNode.kind)
      inferred == invoke("infer", <<declared, initNode, newEnv, FALSE>>)
  IN IF ~Ok(inferred) THEN inferred
     ELSE generaliseForInit(invoke("applyConstraints", <<inferred, initType, Fuel>>),
                            initNode, newEnv)

\* Lines 750-757: whatever the test throws is caught, and a UnifyError is
\* reported.
forTestChecked(st, node) ==
  IF Ok(st) THEN st
  ELSE IF st.err.name = "UnifyError"
    THEN pushTypeError(caught(st), InvalidTestConditionError(node, st.err.LHS))
  ELSE caught(st)

forTestUnified(st, testType) ==
  IF ~Ok(st) THEN st
  ELSE invoke("addToConstraintList", <<st, testType, tBool, Fuel>>)

\* Lines 759-760
inferForBody(st, bodyNode, newEnv, isTopLevelAndLastValStmt) ==
  IF ~Ok(st) THEN st
  ELSE invoke("infer", <<st, bodyNode, newEnv, isTopLevelAndLastValStmt>>)

\* Lines 750-760
inferForTestUpdateBody(st, node, newEnv, isTopLevelAndLastValStmt) ==
  IF ~Ok(st) THEN st
  ELSE
  LET testNode == node.test
      tested == forTestChecked(
                  forTestUnified(invoke("infer", <<st, testNode, newEnv, FALSE>>),
                                 testNode.inferredType),
                  node)
  IN inferForBody(invoke("infer", <<tested, node.update, newEnv, FALSE>>),
                  node.body, newEnv, isTopLevelAndLastValStmt)

inferForScoped(st, node, env, isTopLevelAndLastValStmt) ==
  inferForTestUpdateBody(inferForInit(st, node.init, env), node, st.val,
                         isTopLevelAndLastValStmt)

inferForStatement(st, node, env, isTopLevelAndLastValStmt) ==
  LET storedType == node.inferredType
      bodyType == node.body.inferredType
      c == invoke("addToConstraintList", <<st, storedType, bodyType, Fuel>>)
  IN IF ~Ok(c) THEN c
     ELSE inferForScoped(forScope(c, node.init, env), node, env,
                         isTopLevelAndLastValStmt)

\* A Literal case that takes every literal for a number.
inferLiteralAsNumber(st, node) ==
  invoke("addToConstraintList", <<st, node.inferredType, tNumber, Fuel>>)

\* Lines 846-859
inferLiteral(st, node) ==
  LET storedType == node.inferredType IN
  IF node.typeOf = "object" /\ node.raw = "null"
    THEN LET v == nextTVar(st) IN invoke("addToConstraintList", <<v, storedType, tList(v.val), Fuel>>)
  ELSE IF node.typeOf = "number" THEN invoke("addToConstraintList", <<st, storedType, tNumber, Fuel>>)
  ELSE IF node.typeOf = "boolean" THEN invoke("addToConstraintList", <<st, storedType, tBool, Fuel>>)
  ELSE IF node.typeOf = "string" THEN invoke("addToConstraintList", <<st, storedType, tString, Fuel>>)
  ELSE Throw(st, UnexpectedLiteralType)

\* Lines 860-875
inferIdentifier(st, node, env) ==
  LET storedType == node.inferredType
      identifierName == node.name
  IN IF identifierName \in DOMAIN st.envs[env].typeMap
       THEN LET envType == st.envs[env].typeMap[identifierName] IN
            IF envType.kind = "forall"
              THEN LET f == extractFreeVariablesAndGenFresh(st, envType) IN
                   invoke("addToConstraintList", <<f, storedType, f.val, Fuel>>)
              ELSE invoke("addToConstraintList", <<st, storedType, envType, Fuel>>)
       ELSE pushTypeError(st, UndefinedIdentifierError(node, identifierName))

isDeclaration(node) == node.type \in {"FunctionDeclaration", "VariableDeclaration"}

\* Lines 769-782: the declarations of the body, the last one first.
RECURSIVE declNodesFrom(_, _)
declNodesFrom(body, n) ==
  IF n < 0 THEN <<>>
  ELSE (IF isDeclaration(body[n + 1]) THEN <<body[n + 1]>> ELSE <<>>)
         \o declNodesFrom(body, n - 1)

lastDeclNodeIndexOf(body) ==
  LET decls == {i \in 0..(Len(body) - 1) : isDeclaration(body[i + 1])} IN
  IF decls = {} THEN -1 ELSE CHOOSE i \in decls : \A j \in decls : j <= i

\* A block that does not bind its declared names before inferring them.
declareNone(st, env, declNodes) == st

\* Lines 783-800: every declared name enters the scope with its type variable.
\* (declNode.id is never null: the model has no anonymous declarations.)
RECURSIVE declareEach(_, _, _)
declareEach(st, env, declNodes) ==
  IF declNodes = <<>> THEN st
  ELSE LET declNode == Head(declNodes)
           declared ==
             IF declNode.type = "FunctionDeclaration"
               THEN setDeclKind(setType(st, env, declNode.id, declNode.functionInferredType),
                                env, declNode.id, "const")
             ELSE IF declNode.type = "VariableDeclaration" /\ declNode.kind # "var"
               THEN setDeclKind(setType(st, env, declNode.id, declNode.init.inferredType),
                                env, declNode.id, declNode.kind)
             ELSE st
       IN declareEach(declared, env, Tail(declNodes))

\* A block that leaves every declared name bound to its raw type variable.
generaliseNone(st, env, declNodes) == st

\* Lines 813-834: every declared name is generalised.
RECURSIVE generaliseEach(_, _, _)
generaliseEach(st, env, declNodes) ==
  IF declNodes = <<>> THEN st
  ELSE LET declNode == Head(declNodes)
           r == invoke("applyConstraints", <<st,
                                 IF declNode.type = "FunctionDeclaration"
                                   THEN declNode.functionInferredType
                                   ELSE declNode.init.inferredType,
                                 Fuel>>)
       IN IF ~Ok(r) THEN r
          ELSE generaliseEach(setType(r, env, declNode.id, tForAll(r.val)), env,
                              Tail(declNodes))

\* for (let i = from; i <= to; i++) newConstraints = infer(node.body[i], newEnv, ...)
RECURSIVE inferStatements(_, _, _, _, _, _, _)
inferStatements(st, body, env, i, to, returnValNodeIndex, isTopLevelAndLastValStmt) ==
  IF i > to THEN st
  ELSE LET c == invoke("infer", <<st, body[i + 1], env,
                      i = returnValNodeIndex /\ isTopLevelAndLastValStmt>>)
       IN IF ~Ok(c) THEN c
          ELSE inferStatements(c, body, env, i + 1, to, returnValNodeIndex,
                               isTopLevelAndLastValStmt)

\* Lines 762-845
inferBlockStatement(st, node, env, isTopLevelAndLastValStmt) ==
  LET storedType == node.inferredType
      lastStatementIndex == Len(node.body) - 1
      returnValNodeIndex == returnBlockValueNodeIndexFor(node, isTopLevelAndLastValStmt)
      lastDeclNodeIndex == lastDeclNodeIndexOf(node.body)
      declNodes == declNodesFrom(node.body, lastStatementIndex)
      cloned == cloneEnv(st, env)  \* create new scope
      newEnv == cloned.val
      declared == declareEach(cloned, newEnv, declNodes)
  IN IF returnValNodeIndex < 0 THEN Throw(declared, JSTypeError)  \* lastNode is undefined
     ELSE
     LET lastNode == node.body[returnValNodeIndex + 1]
         lastNodeType == IF isTopLevelAndLastValStmt /\ lastNode.type = "ExpressionStatement"
                           THEN lastNode.expression.inferredType
                           ELSE lastNode.inferredType
         c1 == invoke("addToConstraintList", <<declared, storedType, lastNodeType, Fuel>>)
     IN IF ~Ok(c1) THEN c1
        ELSE
        LET c2 == inferStatements(c1, node.body, newEnv, 0, lastDeclNodeIndex,
                                  returnValNodeIndex, isTopLevelAndLastValStmt)
        IN IF ~Ok(c2) THEN c2
           ELSE
           LET g == generaliseEach(c2, newEnv, declNodes) IN
           IF ~Ok(g) THEN g
           ELSE inferStatements(g, node.body, newEnv, lastDeclNodeIndex + 1,
                                lastStatementIndex, returnValNodeIndex,
                                isTopLevelAndLastValStmt)

\* Lines 876-903
inferIfStatement(st, node, env, isTopLevelAndLastValStmt) ==
  LET storedType == node.inferredType
      testNode == node.test
      consNode == node.consequent
      consType == consNode.inferredType
      altNode == node.alternate
      altType == altNode.inferredType
      c1 == invoke("addToConstraintList", <<st, testNode.inferredType, tBool, Fuel>>)
  IN IF ~Ok(c1) THEN c1
     ELSE
     LET c2 == invoke("addToConstraintList", <<c1, storedType, consType, Fuel>>) IN
     IF ~Ok(c2) THEN c2
     ELSE
     LET t == invoke("infer", <<c2, testNode, env, FALSE>>)
         c3 == IF Ok(t) THEN t
               ELSE IF t.err.name = "UnifyError"
                 THEN pushTypeError(caught(t), InvalidTestConditionError(node, t.err.LHS))
               ELSE caught(t)
         c4 == invoke("infer", <<c3, consNode, env, isTopLevelAndLastValStmt>>)
     IN IF ~Ok(c4) THEN c4
        ELSE
        LET a == invoke("infer", <<c4, altNode, env, isTopLevelAndLastValStmt>>)
            c5 == IF ~Ok(a) THEN a ELSE invoke("addToConstraintList", <<a, consType, altType, Fuel>>)
        IN IF Ok(c5) THEN c5
           ELSE IF c5.err.name = "UnifyError"
             THEN pushTypeError(caught(c5),
                    ConsequentAlternateMismatchError(node, c5.err.RHS, c5.err.LHS))
           ELSE caught(c5)

\* paramNodes.forEach(paramNode => newEnv.typeMap.set(paramNode.name, paramNode.inferredType))
RECURSIVE declareParams(_, _, _)
declareParams(st, env, paramNodes) ==
  IF paramNodes = <<>> THEN st
  ELSE declareParams(setType(st, env, Head(paramNodes).name, Head(paramNodes).inferredType),
                     env, Tail(paramNodes))

paramTypesOf(paramNodes) == [i \in DOMAIN paramNodes |-> paramNodes[i].inferredType]

\* Lines 904-917
inferArrowFunctionExpression(st, node, env) ==
  LET storedType == node.inferredType
      paramNodes == node.params
      bodyNode == node.body
      cloned == cloneEnv(st, env)  \* create new scope
      newEnv == cloned.val
      c == invoke("addToConstraintList", <<cloned, storedType,
                               tFunc(paramTypesOf(paramNodes), bodyNode.inferredType), Fuel>>)
  IN IF ~Ok(c) THEN c
     ELSE invoke("infer", <<declareParams(c, newEnv, paramNodes), bodyNode, newEnv, FALSE>>)

\* Lines 918-921
inferVariableDeclaration(st, node, env) ==
  LET c == invoke("addToConstraintList", <<st, node.inferredType, tUndef, Fuel>>) IN
  IF ~Ok(c) THEN c ELSE invoke("infer", <<c, node.init, env, FALSE>>)

\* Lines 922-939
inferFunctionDeclaration(st, node, env) ==
  LET storedType == node.inferredType
      c1 == invoke("addToConstraintList", <<st, storedType, tUndef, Fuel>>)
      storedFunctionType == node.functionInferredType
      paramNodes == node.params
      bodyNode == node.body
  IN IF ~Ok(c1) THEN c1
     ELSE
     LET cloned == cloneEnv(c1, env)  \* create new scope
         newEnv == cloned.val
         c2 == invoke("addToConstraintList", <<cloned, storedFunctionType,
                                   tFunc(paramTypesOf(paramNodes), bodyNode.inferredType),
                                   Fuel>>)
     IN IF ~Ok(c2) THEN c2
        ELSE invoke("infer", <<declareParams(c2, newEnv, paramNodes), bodyNode, newEnv, FALSE>>)

\* Lines 940-970
inferCallExpression(st, node, env) ==
  LET storedType == node.inferredType
      calleeNode == node.callee
      calleeType == calleeNode.inferredType
      argNodes == node.arguments
      argTypes == paramTypesOf(argNodes)
      c1 == invoke("infer", <<st, calleeNode, env, FALSE>>)
  IN IF ~Ok(c1) THEN c1
     ELSE
     LET f == invoke("applyConstraints", <<c1, calleeNode.inferredType, Fuel>>) IN
     IF ~Ok(f) THEN f
     ELSE
     LET calledFunctionType == f.val
         a == inferArgNodes(Return(f, <<>>), argNodes, env, 1)
     IN IF ~Ok(a) THEN a
        ELSE
        LET receivedTypes == a.val
            c == invoke("addToConstraintList", <<a, tFunc(argTypes, storedType), calleeType, Fuel>>)
        IN IF Ok(c) THEN c
           ELSE IF c.err.name = "UnifyError"
             THEN pushTypeError(caught(c),
                    InvalidArgumentTypesError(node, argNodes,
                      IF calledFunctionType.kind = "function"
                        THEN calledFunctionType.parameterTypes ELSE Null,
                      receivedTypes))
           ELSE IF c.err.name = "InternalDifferentNumberArgumentsError"
             THEN pushTypeError(caught(c),
                    DifferentNumberArgumentsError(node, c.err.numExpectedArgs,
                                                  c.err.numReceived))
           ELSE caught(c)

\* Lines 983-1006: the left side is an identifier.
assignToIdentifier(st, node, env) ==
  LET leftNode == node.left
      rightType == node.right.inferredType
      declKindMap == st.envs[env].declKindMap
  IN IF leftNode.name \in DOMAIN declKindMap /\ declKindMap[leftNode.name] = "const"
       THEN pushTypeError(st, ReassignConstError(node))
     ELSE IF leftNode.name \notin DOMAIN st.envs[env].typeMap THEN Throw(st, JSTypeError)
     ELSE
     LET leftNodeType == st.envs[env].typeMap[leftNode.name]
         e == IF leftNodeType.kind = "forall"
                THEN extractFreeVariablesAndGenFresh(st, leftNodeType)
                ELSE Return(st, leftNodeType)
         expectedType == e.val
         c == invoke("addToConstraintList", <<e, rightType, expectedType, Fuel>>)
     IN IF Ok(c) THEN c
        ELSE IF c.err.name = "UnifyError"
          THEN LET r == invoke("applyConstraints", <<caught(c), rightType, Fuel>>) IN
               IF ~Ok(r) THEN r
               ELSE pushTypeError(r, DifferentAssignmentError(node, expectedType, r.val))
        ELSE caught(c)

\* Lines 1007-1023: the left side is a member expression.
assignToMember(st, node, env) ==
  LET leftNode == node.left
      rightType == node.right.inferredType
      l == invoke("infer", <<st, leftNode, env, FALSE>>)
  IN IF ~Ok(l) THEN l
     ELSE
     LET c == invoke("addToConstraintList", <<l, rightType, leftNode.inferredType, Fuel>>) IN
     IF Ok(c) THEN c
     ELSE IF c.err.name = "UnifyError"
       THEN LET a == invoke("applyConstraints", <<caught(c), leftNode.inferredType, Fuel>>) IN
            IF ~Ok(a) THEN a
            ELSE LET r == invoke("applyConstraints", <<a, rightType, Fuel>>) IN
                 IF ~Ok(r) THEN r
                 ELSE pushTypeError(r, ArrayAssignmentError(node, tArray(a.val), r.val))
     ELSE caught(c)

\* Lines 971-1025
inferAssignmentExpression(st, node, env) ==
  LET storedType == node.inferredType
      leftNode == node.left
      rightNode == node.right
      rightType == rightNode.inferredType
      c1 == invoke("infer", <<st, rightNode, env, FALSE>>)
  IN IF ~Ok(c1) THEN c1
     ELSE
     LET c2 == invoke("addToConstraintList", <<c1, storedType, rightType, Fuel>>) IN
     IF ~Ok(c2) THEN c2
     ELSE IF leftNode.type = "Identifier" THEN assignToIdentifier(c2, node, env)
     ELSE assignToMember(c2, node, env)

\* elements.forEach(element => { newConstraints = infer(element, env, newConstraints) })
RECURSIVE inferElements(_, _, _, _)
inferElements(st, elements, env, i) ==
  IF i > Len(elements) THEN st
  ELSE LET c == invoke("infer", <<st, elements[i], env, FALSE>>) IN
       IF ~Ok(c) THEN c ELSE inferElements(c, elements, env, i + 1)

\* Lines 1035-1052: every element's type is the array's element type.
RECURSIVE unifyElements(_, _, _, _)
unifyElements(st, node, arrayElementType, i) ==
  IF i > Len(node.elements) THEN st
  ELSE
  LET element == node.elements[i]
      c == invoke("addToConstraintList", <<st, arrayElementType, element.inferredType, Fuel>>)
  IN IF Ok(c) THEN unifyElements(c, node, arrayElementType, i + 1)
     ELSE IF c.err.name = "UnifyError"
       THEN LET a == invoke("applyConstraints", <<caught(c), node.inferredType, Fuel>>) IN
            IF ~Ok(a) THEN a
            ELSE LET r == invoke("applyConstraints", <<a, element.inferredType, Fuel>>) IN
                 IF ~Ok(r) THEN r
                 ELSE unifyElements(pushTypeError(r, ArrayAssignmentError(node, a.val, r.val)),
                                    node, arrayElementType, i + 1)
     ELSE unifyElements(caught(c), node, arrayElementType, i + 1)

\* Lines 1026-1054
inferArrayExpression(st, node, env) ==
  LET storedType == node.inferredType
      c1 == inferElements(st, node.elements, env, 1)
  IN IF ~Ok(c1) THEN c1
     ELSE
     LET v == nextTVar(c1)
         arrayElementType == v.val
         c2 == invoke("addToConstraintList", <<v, storedType, tArray(arrayElementType), Fuel>>)
     IN IF ~Ok(c2) THEN c2
        ELSE unifyElements(c2, node, arrayElementType, 1)

\* Lines 1055-1086
inferMemberExpression(st, node, env) ==
  LET storedType == node.inferredType
      obj == node.object
      property == node.property
      propertyType == property.inferredType
      c1 == invoke("infer", <<st, property, env, FALSE>>)
  IN IF ~Ok(c1) THEN c1
     \* obj.name is undefined, or not in the map: envType.kind reads undefined
     ELSE IF obj.type # "Identifier" THEN Throw(c1, JSTypeError)
     ELSE IF obj.name \notin DOMAIN c1.envs[env].typeMap THEN Throw(c1, JSTypeError)
     ELSE
     LET objName == obj.name
         envType == c1.envs[env].typeMap[objName]
         a == IF envType.kind = "forall"
                THEN extractFreeVariablesAndGenFresh(c1, envType)
                ELSE invoke("applyConstraints", <<c1, envType, Fuel>>)
     IN IF ~Ok(a) THEN a
        ELSE
        LET arrayType == a.val IN
        IF arrayType.kind # "array"
          THEN Throw(a, InternalTypeError("Expected an array"))
        ELSE
        LET expectedElementType == arrayType.elementType
            n == invoke("addToConstraintList", <<a, propertyType, tNumber, Fuel>>)
            c2 == IF Ok(n) THEN n
                  ELSE IF n.err.name = "UnifyError"
                    THEN LET r == invoke("applyConstraints", <<caught(n), propertyType, Fuel>>) IN
                         IF ~Ok(r) THEN r
                         ELSE pushTypeError(r, InvalidArrayIndexType(node, r.val))
                  ELSE caught(n)
        IN IF ~Ok(c2) THEN c2
           ELSE invoke("addToConstraintList", <<c2, storedType, expectedElementType, Fuel>>)

\* rebound records the nodes whose inference left the Env object it was given
\* with other bindings than it found there; st is the state before the node
\* was inferred and r the state after.
noteRebound(st, r, node, env) ==
  IF r.envs[env] # st.envs[env]
    THEN [r EXCEPT !.rebound = @ \cup {node.type}]
    ELSE r

\* Lines 625-1090: the switch on node.type.  The cases that open a scope
\* (lines 714, 761, 904 and 922) are observed by noteRebound.
_infer(st, node, env, isTopLevelAndLastValStmt) ==
  CASE node.type = "UnaryExpression" -> inferUnaryExpression(st, node, env)
    [] node.type \in {"LogicalExpression", "BinaryExpression"} ->
         inferBinaryExpression(st, node, env)
    [] node.type = "ExpressionStatement" -> inferExpressionStatement(st, node, env)
    [] node.type = "ReturnStatement" -> inferReturnStatement(st, node, env)
    [] node.type = "WhileStatement" ->
         inferWhileStatement(st, node, env, isTopLevelAndLastValStmt)
    [] node.type = "ForStatement" ->
         noteRebound(st, inferForStatement(st, node, env, isTopLevelAndLastValStmt),
                     node, env)
    [] node.type \in {"Program", "BlockStatement"} ->
         noteRebound(st, inferBlockStatement(st, node, env, isTopLevelAndLastValStmt),
                     node, env)
    [] node.type = "Literal" -> inferLiteral(st, node)
    [] node.type = "Identifier" -> inferIdentifier(st, node, env)
    [] node.type \in {"ConditionalExpression", "IfStatement"} ->
         inferIfStatement(st, node, env, isTopLevelAndLastValStmt)
    [] node.type = "ArrowFunctionExpression" ->
         noteRebound(st, inferArrowFunctionExpression(st, node, env), node, env)
    [] node.type = "VariableDeclaration" -> inferVariableDeclaration(st, node, env)
    [] node.type = "FunctionDeclaration" ->
         noteRebound(st, inferFunctionDeclaration(st, node, env), node, env)
    [] node.type = "CallExpression" -> inferCallExpression(st, node, env)
    [] node.type = "AssignmentExpression" -> inferAssignmentExpression(st, node, env)
    [] node.type = "ArrayExpression" -> inferArrayExpression(st, node, env)
    [] node.type = "MemberExpression" -> inferMemberExpression(st, node, env)
    [] OTHER -> st

\* Lines 608-624: a cyclic-reference error ends the inference of the node
\* and is dropped; anything else is thrown on.
infer(st, node, env, isTopLevelAndLastValStmt) ==
  LET r == _infer(st, node, env, isTopLevelAndLastValStmt) IN
  IF r.err.name = "InternalCyclicReferenceError" THEN caught(r) ELSE r

\* typeCheck without line 222: the counter goes on from where the last call
\* left it.
typeCheckKeepingCounter(program, globals) ==
  LET st == [cs |-> <<>>, kinds |-> globals.kinds, err |-> NoError, val |-> Null,
             typeIdCounter |-> globals.typeIdCounter, typeErrors |-> <<>>,
             envs |-> <<globals.initialEnv>>, rebound |-> {}]
      cloned == cloneEnv(st, 1)
      env == cloned.val
      a == invoke("traverse", <<cloned, program, FALSE>>)
      b == invoke("infer", <<a, a.val, env, TRUE>>)
  IN IF ~Ok(b) THEN Return(b, a.val)
     ELSE invoke("traverse", <<b, a.val, TRUE>>)

\* Lines 219-230.  globals is the module state a call finds: typeIdCounter,
\* typeErrors and the kinds of the live Variable objects.  In the result,
\* val is the program as typeCheck leaves it and err what typeCheck throws.
typeCheck(program, globals) ==
  LET st == [cs |-> <<>>, kinds |-> globals.kinds, err |-> NoError, val |-> Null,
             typeIdCounter |-> 0, typeErrors |-> <<>>,
             envs |-> <<globals.initialEnv>>, rebound |-> {}]
      cloned == cloneEnv(st, 1)
      env == cloned.val
      a == invoke("traverse", <<cloned, program, FALSE>>)
      b == invoke("infer", <<a, a.val, env, TRUE>>)
  IN IF ~Ok(b) THEN Return(b, a.val)
     ELSE invoke("traverse", <<b, a.val, TRUE>>)

-----------------------------------------------------------------------------
(* The substitution-based checker: the second typeCheck of typeChecker.ts   *)
(* (lines 1278-1864), built on unify.  Its functions that share a name     *)
(* with the first checker's carry the suffix 2.                            *)

\* TYPE = NAMED | VAR | FUNCTION
tNamed(name) == [nodeType |-> "Named", name |-> name]
tVar2(name) == [nodeType |-> "Var", name |-> name]
tFunction(fromTypes, toType) ==
  [nodeType |-> "Function", fromTypes |-> fromTypes, toType |-> toType]
\* tFunc(...types): the last type is the result type.
tFunc2(types) == tFunction(SubSeq(types, 1, Len(types) - 1), types[Len(types)])

tNamedBool == tNamed("boolean")
tNamedNumber == tNamed("number")
tNamedNull == tNamed("null")
tNamedString == tNamed("string")
tNamedUndef == tNamed("undefined")

\* What env[name] gives for a name env does not have.
undefined == [nodeType |-> "undefined"]

Error(message) == [name |-> "Error", message |-> message]
\* Reading a property of undefined.
TypeError2 == [name |-> "TypeError"]

predeclaredNames2 ==
  [n \in {"Infinity", "NaN"} |-> tNamedNumber]
  @@ [n \in {"undefined"} |-> tNamedUndef]
  @@ [n \in {"is_boolean", "is_function", "is_number", "is_string", "is_undefined"} |->
        tFunc2(<<tVar2("any"), tNamedBool>>)]
  @@ [n \in {"math_abs", "math_acos", "math_acosh", "math_asin", "math_asinh",
             "math_atan", "math_atan2", "math_atanh", "math_cbrt", "math_ceil",
             "math_clz32", "math_cos", "math_cosh", "math_exp", "math_expm1",
             "math_floor", "math_fround", "math_hypot", "math_imul", "math_LN2",
             "math_LN10", "math_log", "math_log1p", "math_log2", "math_LOG2E",
             "math_log10", "math_LOG10E", "math_max", "math_min", "math_PI",
             "math_pow", "math_random", "math_round", "math_sign", "math_sin",
             "math_sinh", "math_sqrt", "math_SQRT1_2", "math_SQRT2", "math_tan",
             "math_tanh", "math_trunc"} |-> tFunc2(<<tNamedNumber, tNamedNumber>>)]
  @@ [n \in {"parse_int"} |-> tFunc2(<<tNamedString, tNamedNumber>>)]
  @@ [n \in {"prompt"} |-> tFunc2(<<tNamedString, tNamedString>>)]
  @@ [n \in {"runtime"} |-> tFunc2(<<tNamedNumber>>)]
  @@ [n \in {"stringify"} |-> tFunc2(<<tVar2("any"), tNamedString>>)]

primitiveFuncs2 ==
  [n \in {"!"} |-> tFunc2(<<tNamedBool, tNamedBool>>)]
  @@ [n \in {"&&", "||"} |-> tFunc2(<<tNamedBool, tNamedBool, tNamedBool>>)]
  @@ [n \in {"===", "!==", "<", "<=", ">", ">="} |->
        tFunc2(<<tNamedNumber, tNamedNumber, tNamedBool>>)]
  @@ [n \in {"+", "-", "*"} |-> tFunc2(<<tNamedNumber, tNamedNumber, tNamedNumber>>)]

\* {...predeclaredNames, ...primitiveFuncs}
initialEnv2 == primitiveFuncs2 @@ predeclaredNames2

\* env[name]
lookup(env, name) == IF name \in DOMAIN env THEN env[name] ELSE undefined

RECURSIVE contains2(_, _)
contains2(type, name) ==
  CASE type.nodeType = "Named" -> FALSE
    [] type.nodeType = "Var" -> type.name = name
    [] type.nodeType = "Function" ->
         \/ \E i \in DOMAIN type.fromTypes : contains2(type.fromTypes[i], name)
         \/ contains2(type.toType, name)

\* A Subsitution is a function from names of type variables to types; a
\* function that returns one returns [err, subst].
substitution(subst) == [err |-> NoError, subst |-> subst]

bindTypeVarToType(nameOfTypeVar, type) ==
  IF type.nodeType = "Var" /\ nameOfTypeVar = type.name THEN substitution(<<>>)
  ELSE IF contains2(type, nameOfTypeVar)
    THEN [err |-> Error("Contains cyclic reference to itself, where the type being bound to is a function type"),
          subst |-> <<>>]
  ELSE substitution(nameOfTypeVar :> type)

RECURSIVE applySubstToType(_, _)
applySubstToType(subst, type) ==
  CASE type.nodeType = "Named" -> type
    [] type.nodeType = "Var" ->
         IF type.name \in DOMAIN subst THEN subst[type.name] ELSE type
    [] type.nodeType = "Function" ->
         tFunction([i \in DOMAIN type.fromTypes |-> applySubstToType(subst, type.fromTypes[i])],
                   applySubstToType(subst, type.toType))

applySubstToTypes(subst, types) ==
  [i \in DOMAIN types |-> applySubstToType(subst, types[i])]

\* {...s1, ...composedSubst}
composeSubsitutions(s1, s2) ==
  [key \in DOMAIN s2 |-> applySubstToType(s1, s2[key])] @@ s1

\* unify without its tests: any two types are taken to agree.
unifyAnything(t1, t2) == substitution(<<>>)

\* unify(t1, t2): [err, subst].  t2 is undefined when the operator of an
\* expression is not in the environment: whichever test reads t2.nodeType
\* first throws a TypeError.
RECURSIVE unify(_, _)
RECURSIVE unifyFromTypes(_, _, _, _)
unify(t1, t2) ==
  IF t2 = undefined THEN [err |-> TypeError2, subst |-> <<>>]
  ELSE IF t1.nodeType = "Named" /\ t2.nodeType = "Named" /\ t1.name = t2.name
    THEN substitution(<<>>)
  ELSE IF t1.nodeType = "Var" THEN bindTypeVarToType(t1.name, t2)
  ELSE IF t2.nodeType = "Var" THEN bindTypeVarToType(t2.name, t1)
  ELSE IF t1.nodeType = "Function" /\ t2.nodeType = "Function"
    THEN IF Len(t1.fromTypes) # Len(t2.fromTypes)
           THEN [err |-> Error("Expected " \o ToString(Len(t1.fromTypes)) \o " args, got "
                               \o ToString(Len(t2.fromTypes))),
                 subst |-> <<>>]
         ELSE LET args == unifyFromTypes(t1, t2, 1, <<>>) IN
              IF ~Ok(args) THEN args
              ELSE LET argSubst == args.subst
                       body == invoke("unify", <<applySubstToType(argSubst, t1.toType),
                                     applySubstToType(argSubst, t2.toType)>>)
                   IN IF ~Ok(body) THEN body
                      ELSE substitution(composeSubsitutions(argSubst, body.subst))
  ELSE [err |-> Error("Type Mismatch"), subst |-> <<>>]

\* for (let i = 0; i < t1.fromTypes.length; i++)
\*   argSubst = composeSubsitutions(argSubst, unify(t1.fromTypes[i], t2.fromTypes[i]))
unifyFromTypes(t1, t2, i, argSubst) ==
  IF i > Len(t1.fromTypes) THEN substitution(argSubst)
  ELSE LET u == invoke("unify", <<t1.fromTypes[i], t2.fromTypes[i]>>) IN
       IF ~Ok(u) THEN u
       ELSE unifyFromTypes(t1, t2, i + 1, composeSubsitutions(argSubst, u.subst))

\* A Ctx object { next, env } as a call holds it; after a call of infer on it,
\* err is what the call threw and type, subst and node are what it returned
\* and the copy of the node it made.
Ctx(next, env) ==
  [next |-> next, env |-> env, err |-> NoError, type |-> Null, subst |-> <<>>, node |-> Null]

\* A new object with a copy of ctx.next and a new env object.
cloneCtx(ctx) == Ctx(ctx.next, ctx.env)

applySubstToCtx(subst, ctx) ==
  [ctx EXCEPT !.env = [name \in DOMAIN @ |-> applySubstToType(subst, @[name])]]

addToCtx(ctx, name, type) == [ctx EXCEPT !.env = (name :> type) @@ @]

\* ctx.type is the new variable.
newTypeVar(ctx) ==
  [ctx EXCEPT !.next = @ + 1, !.type = tVar2("TypeVar" \o ToString(ctx.next))]

\* newTypeVar once for each parameter; ctx.type is the array of the variables.
RECURSIVE newTypeVars(_, _)
newTypeVars(ctx, n) ==
  IF n = 0 THEN [ctx EXCEPT !.type = <<>>]
  ELSE LET rest == newTypeVars(ctx, n - 1)
           v == newTypeVar(rest)
       IN [v EXCEPT !.type = Append(rest.type, v.type)]

\* params.forEach((param, index) => addToCtx(newCtx, param.name, newTypes[index]))
RECURSIVE addParamsToCtx(_, _, _)
addParamsToCtx(ctx, params, types) ==
  IF params = <<>> THEN ctx
  ELSE addParamsToCtx(addToCtx(ctx, Head(params).name, Head(types)), Tail(params), Tail(types))

RECURSIVE inferredTypeSpec(_)
inferredTypeSpec(type) ==
  CASE type.nodeType = "Named" -> [name |-> type.name, kind |-> "primitive"]
    [] type.nodeType = "Function" ->
         [kind |-> "function",
          argumentTypes |-> [i \in DOMAIN type.fromTypes |-> inferredTypeSpec(type.fromTypes[i])],
          resultType |-> inferredTypeSpec(type.toType)]
    [] type.nodeType = "Var" -> [kind |-> "variable", name |-> type.name]

\* copiedNode.inferredType = inferredTypeSpec(type)
saveType(type, copiedNode) == ("inferredType" :> inferredTypeSpec(type)) @@ copiedNode

\* infer returns [type, subst]; ctx.node is copiedNode as it is then.
saveTypeAndReturn(ctx, type, subst, copiedNode) ==
  [ctx EXCEPT !.type = type, !.subst = subst, !.node = saveType(type, copiedNode)]

\* const copiedNode = { ...node }; delete copiedNode.loc.  (The copy is
\* shallow: the id node a FunctionDeclaration's type is saved on is the id
\* node of the program itself, where nothing reads it.)
copyOf(node) == [field \in DOMAIN node \ {"loc"} |-> node[field]]

\* Lines 1512-1745.  infer(node, ctx, prevCopiedNode, key): the caller puts
\* the returned ctx.node under prevCopiedNode[key]; where the source passes
\* no prevCopiedNode the copy is dropped.  A call on a cloned context leaves
\* the caller's context as it was, whether it returns or throws.
RECURSIVE infer2(_, _)
RECURSIVE inferBody2(_, _, _, _)
RECURSIVE inferArguments2(_, _, _, _, _)
RECURSIVE unifyParamTypes(_, _, _, _)
infer2(node, ctx) ==
  LET copiedNode == copyOf(node) IN
  CASE node.type = "UnaryExpression" ->
         LET a == invoke("infer2", <<node.argument, ctx>>) IN
         IF ~Ok(a) THEN a ELSE
         LET funcType == lookup(a.env, node.operator)
             v == newTypeVar(a)
             u == invoke("unify", <<tFunction(<<a.type>>, v.type), funcType>>)
         IN IF ~Ok(u) THEN Throw(v, u.err) ELSE
            LET composedSubst == composeSubsitutions(a.subst, u.subst) IN
            saveTypeAndReturn(v, applySubstToType(composedSubst, funcType.toType),
                              composedSubst, [copiedNode EXCEPT !.argument = a.node])
    [] node.type \in {"LogicalExpression", "BinaryExpression"} ->
         LET l == invoke("infer2", <<node.left, ctx>>) IN
         IF ~Ok(l) THEN l ELSE
         LET r == invoke("infer2", <<node.right, l>>) IN
         IF ~Ok(r) THEN r ELSE
         LET funcType == lookup(r.env, node.operator)
             v == newTypeVar(r)
             u == invoke("unify", <<tFunction(<<l.type, r.type>>, v.type), funcType>>)
         IN IF ~Ok(u) THEN Throw(v, u.err) ELSE
            LET composedSubst ==
                  composeSubsitutions(u.subst, composeSubsitutions(l.subst, r.subst))
            IN saveTypeAndReturn(v, applySubstToType(composedSubst, funcType.toType),
                                 composedSubst,
                                 [copiedNode EXCEPT !.left = l.node, !.right = r.node])
    [] node.type = "ExpressionStatement" ->
         LET inferred == invoke("infer2", <<node.expression, ctx>>) IN
         IF ~Ok(inferred) THEN inferred ELSE
         saveTypeAndReturn(inferred, tNamedUndef, inferred.subst,
                           [copiedNode EXCEPT !.expression = inferred.node])
    [] node.type = "ReturnStatement" ->
         IF node.argument = Null
           THEN saveTypeAndReturn(ctx, tNamedNull, <<>>, copiedNode)
         ELSE LET inferred == invoke("infer2", <<node.argument, ctx>>) IN
              IF ~Ok(inferred) THEN inferred ELSE
              saveTypeAndReturn(inferred, inferred.type, inferred.subst,
                                [copiedNode EXCEPT !.argument = inferred.node])
    [] node.type = "BlockStatement" ->
         LET b == invoke("inferBody2", <<node.body, 1, cloneCtx(ctx), <<>>>>) IN
         IF ~Ok(b) THEN Throw(ctx, b.err)
         ELSE saveTypeAndReturn(ctx, b.type, b.subst, copiedNode)
    [] node.type = "Literal" ->
         IF node.typeOf = "object" /\ node.raw = "null"
           THEN saveTypeAndReturn(ctx, tNamedNull, <<>>, copiedNode)
         ELSE IF node.typeOf \in {"boolean", "string", "number"}
           THEN saveTypeAndReturn(ctx, tNamed(node.typeOf), <<>>, copiedNode)
         ELSE Throw(ctx, Error("Unexpected literal type"))
    [] node.type = "Identifier" ->
         IF node.name \in DOMAIN ctx.env
           THEN saveTypeAndReturn(ctx, ctx.env[node.name], <<>>, copiedNode)
         ELSE Throw(ctx, Error("Undefined identifier: " \o node.name))
    [] node.type \in {"ConditionalExpression", "IfStatement"} ->
         LET t == invoke("infer2", <<node.test, ctx>>) IN
         IF ~Ok(t) THEN t ELSE
         LET subst2 == invoke("unify", <<tNamedBool, t.type>>) IN
         IF ~Ok(subst2) THEN Throw(t, subst2.err) ELSE
         LET subst3 == composeSubsitutions(t.subst, subst2.subst)
             c == invoke("infer2", <<node.consequent, applySubstToCtx(subst3, t)>>)
         IN IF ~Ok(c) THEN c ELSE
            LET subst5 == composeSubsitutions(subst3, c.subst)
                ctx5 == applySubstToCtx(subst5, c)
                copied5 == [copiedNode EXCEPT !.test = t.node, !.consequent = c.node]
            IN IF node.alternate # Null
                 THEN LET a == invoke("infer2", <<node.alternate, ctx5>>) IN
                      IF ~Ok(a) THEN a ELSE
                      saveTypeAndReturn(a, tNamedUndef, composeSubsitutions(subst5, a.subst),
                                        [copied5 EXCEPT !.alternate = a.node])
               ELSE saveTypeAndReturn(ctx5, tNamedUndef, subst5, copied5)
    [] node.type = "ArrowFunctionExpression" ->
         LET vs == newTypeVars(ctx, Len(node.params))
             newTypes == vs.type
             newCtx == addParamsToCtx(cloneCtx(vs), node.params, newTypes)
             b == invoke("infer2", <<node.body, newCtx>>)
         IN IF ~Ok(b) THEN Throw(vs, b.err) ELSE
            saveTypeAndReturn(vs, tFunction(applySubstToTypes(b.subst, newTypes), b.type),
                              b.subst, [copiedNode EXCEPT !.body = b.node])
    [] node.type = "VariableDeclaration" ->
         LET v == newTypeVar(ctx)
             newType == v.type
             i == invoke("infer2", <<node.init, addToCtx(v, node.id, newType)>>)
         IN IF ~Ok(i) THEN i ELSE
            LET subst2 == invoke("unify", <<i.type, applySubstToType(i.subst, newType)>>) IN
            IF ~Ok(subst2) THEN Throw(i, subst2.err) ELSE
            LET composedSubst == composeSubsitutions(i.subst, subst2.subst) IN
            saveTypeAndReturn(addToCtx(i, node.id, applySubstToType(composedSubst, i.type)),
                              tNamedUndef, composedSubst, [copiedNode EXCEPT !.init = i.node])
    [] node.type = "FunctionDeclaration" ->
         LET ps == newTypeVars(ctx, Len(node.params))
             paramTypes == ps.type
             v == newTypeVar(ps)
             functionType == tFunction(paramTypes, v.type)
             declared == addToCtx(v, node.id, functionType)
             newCtx == addParamsToCtx(cloneCtx(declared), node.params, paramTypes)
             b == invoke("infer2", <<node.body, newCtx>>)
         IN IF ~Ok(b) THEN Throw(declared, b.err) ELSE
            LET inferredType == tFunction(applySubstToTypes(b.subst, paramTypes), b.type)
                subst2 == invoke("unify", <<inferredType, applySubstToType(b.subst, functionType)>>)
            IN IF ~Ok(subst2) THEN Throw(declared, subst2.err) ELSE
               LET composedSubst == composeSubsitutions(b.subst, subst2.subst)
                   type == applySubstToType(composedSubst, inferredType)
               IN saveTypeAndReturn(
                    addToCtx(declared, node.id, type), tNamedUndef, composedSubst,
                    [copiedNode EXCEPT !.body = b.node,
                                       !.id = saveType(type, [type |-> "Identifier", name |-> node.id])])
    [] node.type = "CallExpression" ->
         LET f == invoke("infer2", <<node.callee, ctx>>) IN
         IF ~Ok(f) THEN f ELSE
         LET funcType == f.type
             subst1 == f.subst
             args == invoke("inferArguments2", <<node.arguments, 1, applySubstToCtx(subst1, cloneCtx(f)),
                                     <<>>, <<>>>>)
         IN IF ~Ok(args) THEN Throw(f, args.err) ELSE
            LET argTypes == args.type
                v == newTypeVar(f)
                subst3 == composeSubsitutions(subst1, args.subst)
                subst4 == invoke("unify", <<funcType, tFunction(argTypes, v.type)>>)
            IN IF ~Ok(subst4) THEN Throw(v, subst4.err) ELSE
               LET funcType1 == applySubstToType(subst4.subst, funcType)
                   subst5 == composeSubsitutions(subst3, subst4.subst)
                   paramTypes == applySubstToTypes(subst5, funcType1.fromTypes)
                   subst6 == invoke("unifyParamTypes", <<paramTypes, argTypes, 1, <<>>>>)
               IN IF ~Ok(subst6) THEN Throw(v, subst6.err) ELSE
                  LET finalSubst == composeSubsitutions(subst5, subst6.subst) IN
                  saveTypeAndReturn(v, applySubstToType(finalSubst, funcType1.toType),
                                    finalSubst, [copiedNode EXCEPT !.callee = f.node])
    [] OTHER -> saveTypeAndReturn(ctx, tNamedUndef, <<>>, copiedNode)

\* The loop of the BlockStatement case over node.body, from statement i, on
\* the cloned context.
inferBody2(body, i, newCtx, composedSubst) ==
  IF i > Len(body) THEN [newCtx EXCEPT !.type = tNamedUndef, !.subst = composedSubst]
  ELSE LET r == invoke("infer2", <<body[i], newCtx>>) IN
       IF ~Ok(r) THEN r ELSE
       LET composed == composeSubsitutions(composedSubst, r.subst)
           applied == applySubstToCtx(composed, r)
       IN IF body[i].type = "ReturnStatement"
            THEN [applied EXCEPT !.type = r.type, !.subst = composed]
          ELSE invoke("inferBody2", <<body, i + 1, applied, composed>>)

\* The loop of the CallExpression case over node.arguments, from argument i,
\* on the cloned context; type is argTypes and subst is subst2.
inferArguments2(arguments, i, newCtx, argTypes, subst2) ==
  IF i > Len(arguments) THEN [newCtx EXCEPT !.type = argTypes, !.subst = subst2]
  ELSE LET inferredArgType == invoke("infer2", <<arguments[i], newCtx>>) IN
       IF ~Ok(inferredArgType) THEN inferredArgType
       ELSE invoke("inferArguments2", <<arguments, i + 1, inferredArgType,
                            Append(argTypes, inferredArgType.type),
                            composeSubsitutions(subst2, inferredArgType.subst)>>)

\* paramTypes.forEach((paramType, index) =>
\*   subst6 = composeSubsitutions(subst6, unify(paramType, argTypes[index])))
unifyParamTypes(paramTypes, argTypes, i, subst6) ==
  IF i > Len(paramTypes) THEN substitution(subst6)
  ELSE LET u == invoke("unify", <<paramTypes[i], argTypes[i]>>) IN
       IF ~Ok(u) THEN u
       ELSE invoke("unifyParamTypes", <<paramTypes, argTypes, i + 1, composeSubsitutions(subst6, u.subst)>>)

\* program.body.forEach((node, idx) => infer(node, ctx, root, idx.toString()))
\* from statement i; ctx.node is the array of the copies put into root.
RECURSIVE inferEach2(_, _, _)
inferEach2(body, i, ctx) ==
  IF i > Len(body) THEN ctx
  ELSE LET r == invoke("infer2", <<body[i], ctx>>) IN
       IF ~Ok(r) THEN r
       ELSE invoke("inferEach2", <<body, i + 1, [r EXCEPT !.node = Append(ctx.node, r.node)]>>)

\* Lines 1286-1305.  env is the module's initialEnv object, which the call
\* uses as ctx.env; the result holds it as the call leaves it, in val what
\* the call returns and in err what it throws.
typeCheck2(program, env) ==
  IF program = Null \/ program.body = <<>>
    THEN [env |-> env, val |-> <<>>, err |-> NoError]
  ELSE LET ctx == [Ctx(0, env) EXCEPT !.node = <<>>]
           r == IF Len(program.body) < 10 THEN invoke("inferEach2", <<program.body, 1, ctx>>) ELSE ctx
       IN [env |-> r.env, val |-> IF Ok(r) THEN r.node ELSE <<>>, err |-> r.err]

\* The call f(a[1], ..., a[n]).
invoke(f, a) ==
  CASE f = "applyConstraints" -> applyConstraints(a[1], a[2], a[3])
    [] f = "addToConstraintList" -> addToConstraintList(a[1], a[2], a[3], a[4])
    [] f = "traverse" -> traverse(a[1], a[2], a[3])
    [] f = "infer" -> infer(a[1], a[2], a[3], a[4])
    [] f = "typeCheck" -> typeCheck(a[1], a[2])
    [] f = "typeCheck2" -> typeCheck2(a[1], a[2])
    [] f = "infer2" -> infer2(a[1], a[2])
    [] f = "inferEach2" -> inferEach2(a[1], a[2], a[3])
    [] f = "inferBody2" -> inferBody2(a[1], a[2], a[3], a[4])
    [] f = "inferArguments2" -> inferArguments2(a[1], a[2], a[3], a[4], a[5])
    [] f = "unifyParamTypes" -> unifyParamTypes(a[1], a[2], a[3], a[4])
    [] f = "unify" -> unify(a[1], a[2])

-----------------------------------------------------------------------------
(* The constraint store driven by arbitrary calls.                         *)

\* The Variable objects of the store machine.  T0 and T1 are made by tVar
\* (constraint 'none'), T2 is a copy of tAddable('A') (constraint 'addable').
Vars == {"T0", "T1", "T2"}
InitKinds == [v \in Vars |-> IF v = "T2" THEN "addable" ELSE "none"]

Leaves == {tNumber, tBool} \cup {tVar(v) : v \in Vars}
PairLeaves == {tNumber, tBool, tVar("T0"), tVar("T1")}
ListLeaves == {tNumber, tVar("T0"), tVar("T1")}
FuncLeaves == {tNumber, tVar("T0")}

\* The terms the calls are drawn from, built with the constructors of
\* typeChecker.ts, lines 1096-1161.
Terms ==
  Leaves
  \cup {tList(a) : a \in ListLeaves}
  \cup {tArray(a) : a \in FuncLeaves}
  \cup {tPair(a, b) : a \in PairLeaves, b \in PairLeaves}
  \cup {tFunc(<<>>, tNumber)}
  \cup {tFunc(<<a>>, b) : a \in FuncLeaves, b \in FuncLeaves}
  \cup {tPair(tNumber, tPair(tBool, tVar("T0"))), tPair(tNumber, tList(tVar("T0")))}

\* The module as loaded, with no program at hand.
NoTypeCheck ==
  /\ source = Null
  /\ ast = Null
  /\ typeIdCounter = 0
  /\ typeErrors = <<>>
  /\ diagnostics = <<>>
  /\ thrown = NoError
  /\ first = <<>>
  /\ runs = 0
  /\ lastRun = "none"
  /\ rechecked = "no"
  /\ envs = <<initialEnv>>
  /\ rebound = {}
  /\ moduleEnv = initialEnv2
  /\ returned = <<>>

\* The threaded record of a call on the current store.
Store == [cs |-> constraints, kinds |-> kinds, err |-> NoError, val |-> Null]

Init ==
  /\ constraints = <<>>
  /\ kinds = InitKinds
  /\ lastCall = [op |-> "none"]
  /\ lastErr = NoError
  /\ lastVal = Null
  /\ prevConstraints = <<>>
  /\ prevKinds = InitKinds
  /\ calls = 0
  /\ NoTypeCheck

AddToConstraintList(LHS, RHS) ==
  /\ calls < MaxCalls
  /\ \E r \in {invoke("addToConstraintList", <<Store, LHS, RHS, Fuel>>)} :
       /\ constraints' = r.cs
       /\ kinds' = r.kinds
       /\ lastErr' = r.err
       /\ lastVal' = Null
  /\ lastCall' = [op |-> "addToConstraintList", LHS |-> LHS, RHS |-> RHS]
  /\ prevConstraints' = constraints
  /\ prevKinds' = kinds
  /\ calls' = calls + 1
  /\ UNCHANGED <<typeCheckVars, typeCheck2Vars>>

ApplyConstraints(type) ==
  /\ calls < MaxCalls
  /\ \E r \in {invoke("applyConstraints", <<Store, type, Fuel>>)} :
       /\ constraints' = r.cs
       /\ kinds' = r.kinds
       /\ lastErr' = r.err
       /\ lastVal' = IF Ok(r) THEN r.val ELSE Null
  /\ lastCall' = [op |-> "applyConstraints", type |-> type]
  /\ prevConstraints' = constraints
  /\ prevKinds' = kinds
  /\ calls' = calls + 1
  /\ UNCHANGED <<typeCheckVars, typeCheck2Vars>>

Next ==
  \/ \E LHS \in Terms, RHS \in Terms : AddToConstraintList(LHS, RHS)
  \/ \E type \in Terms : ApplyConstraints(type)

Spec == Init /\ [][Next]_vars


-----------------------------------------------------------------------------
(* Properties of the constraint store                                      *)

\* applyConstraints(a, store) followed by applyConstraints(b, store) on the
\* current store: both return, and return structurally identical terms.
resolveAlike(a, b) ==
  LET r1 == invoke("applyConstraints", <<Store, a, Fuel>>) IN
  /\ Ok(r1)
  /\ LET r2 == invoke("applyConstraints", <<r1, b, Fuel>>) IN
       Ok(r2) /\ r1.val = r2.val

\* The last call failed with one of the unifier's own errors.
lastCallFailed ==
  lastErr.name \in {"UnifyError", "InternalDifferentNumberArgumentsError",
                    "InternalCyclicReferenceError"}

\* C1 (soundness of unification): after any sequence of addToConstraintList
\* calls, failed ones included, both sides of every stored equation (v, t)
\* resolve under applyConstraints to structurally identical terms.
C1_StoredEquationsResolveAlike ==
  \A i \in DOMAIN constraints : resolveAlike(constraints[i][1], constraints[i][2])

\* C2 (addable containment): no variable whose kind is 'addable' resolves
\* under applyConstraints to a non-variable term other than number or string.
C2_AddableNeverResolvesOutsideNumberString ==
  \A v \in Vars :
    kinds[v] = "addable" =>
      LET r == invoke("applyConstraints", <<Store, tVar(v), Fuel>>) IN
      Ok(r) => (r.val.kind = "variable" \/ r.val \in {tNumber, tString})

\* C3 (failure atomicity): when addToConstraintList fails with a UnifyError,
\* an arity error or a cyclic-reference error, the store holds exactly the
\* entries it held before the call, in the same order.
C3_FailedAddLeavesStoreUnchanged ==
  (lastCall.op = "addToConstraintList" /\ lastCallFailed)
    => constraints = prevConstraints

\* C4 (first-wins): in every reachable store no variable name is the
\* left-hand side of two distinct entries.
C4_NoVariableBoundTwice ==
  \A i \in DOMAIN constraints : \A j \in DOMAIN constraints :
    i # j => constraints[i][1].name # constraints[j][1].name

\* The shapes __applyConstraints and addToConstraintList read as a cyclic
\* list: v = List(v), v = Pair(h, v), v = Pair(h, List(v)).
isCyclicListShape(v, t) ==
  \/ getListType(t) = v
  \/ isPair(t) /\ (t.tailType = v \/ getListType(t.tailType) = v)

\* C5 (occurs check): in every reachable store, an entry (v, t) in which t
\* contains v has t of the cyclic-list shape; any other equation binding v
\* to a term that contains v is rejected and not stored.
C5_SelfContainingEntriesAreCyclicLists ==
  \A i \in DOMAIN constraints :
    contains(constraints[i][2], constraints[i][1].name)
      => isCyclicListShape(constraints[i][1], constraints[i][2])

\* The store and the constraints of the variables the last call found.
PrevStore == [cs |-> prevConstraints, kinds |-> prevKinds, err |-> NoError, val |-> Null]

\* The variable is the left side of an entry of the store.
isBound(store, v) == firstOnLeft(store.cs, v.name) # 0

\* Pair(h, v) or Pair(h, Pair(_, v))
isListEndingIn(v, t) ==
  isPair(t) /\ (t.tailType = v \/ (isPair(t.tailType) /\ t.tailType.tailType = v))

\* C18 (cyclic-list rescue): when addToConstraintList is called with an
\* unbound variable v on the left and on the right a term other than v that
\* contains v, then, if the term is Pair(h, v) or Pair(h, Pair(_, v)), the
\* call succeeds and v resolves to the list type with element h afterwards
\* (List(h), which applyConstraints returns as Pair(h, List(h))); for every
\* other term the call fails with a cyclic-reference error.
C18_SelfContainingTermIsListOrCyclic ==
  (/\ lastCall.op = "addToConstraintList"
   /\ lastCall.LHS.kind = "variable"
   /\ lastCall.RHS # lastCall.LHS
   /\ contains(lastCall.RHS, lastCall.LHS.name)
   /\ ~isBound(PrevStore, lastCall.LHS)) =>
    LET v == lastCall.LHS
        t == lastCall.RHS
    IN IF isListEndingIn(v, t)
         THEN /\ lastErr = NoError
              /\ LET r == invoke("applyConstraints", <<Store, v, Fuel>>)
                     h == invoke("applyConstraints", <<Store, t.headType, Fuel>>)
                 IN /\ Ok(r)
                    /\ Ok(h)
                    /\ r.val \in {tList(h.val), tPair(h.val, tList(h.val))}
         ELSE lastErr = InternalCyclicReferenceError(v.name)

\* Pair(h1, Pair(h2, List(h3)))
isPairOfPairOfList(t) == isPair(t) /\ isPair(t.tailType) /\ isList(t.tailType.tailType)

\* C19 (list-normal form): whatever the term and the store, what
\* applyConstraints returns is no List(e) and no Pair(h1, Pair(h2, List(h3)));
\* when the substituted term is List(e) it returns Pair(e, List(e)), and
\* when the substituted term is Pair(h1, Pair(h2, List(h3))) the store is
\* afterwards what addToConstraintList makes of it for h2 = h3 and then for
\* h2 = h1, and the result is the tail Pair(h2, List(h3)) with that store
\* applied to it.
C19_AppliedTermsAreInListNormalForm ==
  (lastCall.op = "applyConstraints" /\ lastErr = NoError) =>
    /\ ~isList(lastVal)
    /\ ~isPairOfPairOfList(lastVal)
    /\ LET s == __applyConstraints(PrevStore, lastCall.type, Fuel).val IN
       /\ isList(s) => lastVal = tPair(s.elementType, s)
       /\ isPairOfPairOfList(s) =>
            LET h1 == s.headType
                h2 == s.tailType.headType
                h3 == s.tailType.tailType.elementType
                a1 == invoke("addToConstraintList", <<PrevStore, h2, h3, Fuel>>)
                a2 == invoke("addToConstraintList", <<a1, h2, h1, Fuel>>)
            IN /\ Ok(a1)
               /\ Ok(a2)
               /\ constraints = a2.cs
               /\ kinds = a2.kinds
               /\ lastVal = __applyConstraints(Store, s.tailType, Fuel).val

\* applyConstraints(Pair(h1, T0)) has returned on a store that holds T0 as a
\* list: the substituted term was Pair(h1, Pair(h2, List(h3))), and the
\* result is Pair(h2, List(h3)) resolved.
C19_Witness_PairOntoListIsFolded ==
  /\ lastCall.op = "applyConstraints"
  /\ lastErr = NoError
  /\ isPair(lastCall.type)
  /\ lastCall.type.tailType = tVar("T0")
  /\ isPairOfPairOfList(__applyConstraints(PrevStore, lastCall.type, Fuel).val)
  /\ isPair(lastVal)
  /\ isList(lastVal.tailType)
  /\ constraints # prevConstraints

\* C20 (kinds only tighten): no call turns the constraint of a variable from
\* addable to none; and when addToConstraintList succeeds in binding an
\* unbound addable variable to an unbound variable whose constraint is
\* none, that variable's constraint is addable after the call.
C20_KindsOnlyTighten ==
  /\ \A v \in Vars : prevKinds[v] = "addable" => kinds[v] = "addable"
  /\ (/\ lastCall.op = "addToConstraintList"
      /\ lastErr = NoError
      /\ lastCall.LHS.kind = "variable"
      /\ lastCall.RHS.kind = "variable"
      /\ prevKinds[lastCall.LHS.name] = "addable"
      /\ prevKinds[lastCall.RHS.name] = "none"
      /\ ~isBound(PrevStore, lastCall.LHS)
      /\ ~isBound(PrevStore, lastCall.RHS))
       => kinds[lastCall.RHS.name] = "addable"

\* The addable T2 has been bound to T0, whose constraint was none and is
\* addable now.
C20_Witness_AddableBoundToPlainVariable ==
  /\ lastCall.op = "addToConstraintList"
  /\ lastErr = NoError
  /\ lastCall.LHS = tVar("T2")
  /\ lastCall.RHS = tVar("T0")
  /\ prevKinds["T0"] = "none"
  /\ kinds["T0"] = "addable"
  /\ constraints = Append(prevConstraints, <<tVar("T2"), tVar("T0")>>)

\* C26 (the store is append-only): every call of addToConstraintList or
\* applyConstraints, returning or throwing, leaves every entry the store
\* held before the call in the store at the same position.
C26_StoreIsAppendOnly ==
  /\ Len(prevConstraints) <= Len(constraints)
  /\ \A i \in 1..Len(prevConstraints) : constraints[i] = prevConstraints[i]

\* A second call that throws after it has pushed an entry behind the entry of
\* the first call.
C26_Witness_FailedCallKeepsEarlierEntries ==
  /\ calls = 2
  /\ lastCall.op = "addToConstraintList"
  /\ lastCallFailed
  /\ Len(prevConstraints) = 1
  /\ Len(constraints) > 1
  /\ constraints[1] = prevConstraints[1]

\* C27 (an added equation holds): when addToConstraintList(store, lhs, rhs)
\* returns, applyConstraints(lhs) and applyConstraints(rhs) return
\* structurally identical terms on the resulting store.
C27_AddedEquationResolvesAlike ==
  (lastCall.op = "addToConstraintList" /\ lastErr = NoError) =>
    resolveAlike(lastCall.LHS, lastCall.RHS)

\* What applyConstraints makes of the variable on the store: the term, or
\* the error it throws.
resolved(store, v) ==
  LET r == invoke("applyConstraints", <<store, tVar(v), Fuel>>) IN
  IF Ok(r) THEN r.val ELSE r.err

\* A term without variables.
isGround(t) == "kind" \in DOMAIN t /\ \A v \in Vars : ~contains(t, v)

\* C28 (orientation does not matter): addToConstraintList(store, a, b) fails
\* exactly when addToConstraintList(store, b, a) fails on the same store, and
\* when both return, every variable resolves under applyConstraints to the
\* same term on the two resulting stores.  Two stores that differ only in
\* which variable of a class of equal variables stands for the class are
\* taken as resolving alike: the terms compared are those without variables.
C28_OrientationDoesNotMatter ==
  lastCall.op = "addToConstraintList" =>
    LET swapped == invoke("addToConstraintList",
                          <<PrevStore, lastCall.RHS, lastCall.LHS, Fuel>>)
    IN /\ Ok(swapped) <=> lastErr = NoError
       /\ (Ok(swapped) /\ lastErr = NoError) =>
            \A v \in Vars :
              (isGround(resolved(Store, v)) \/ isGround(resolved(swapped, v))) =>
                resolved(Store, v) = resolved(swapped, v)

\* C29 (termination): no call of addToConstraintList or applyConstraints
\* recurses without end.
C29_CallsTerminate ==
  lastErr # OutOfFuel

\* C30 (applyConstraints is idempotent): when applyConstraints(t) returns r,
\* applyConstraints(r) on the resulting store returns r and adds no entry.
C30_ApplyConstraintsIsIdempotent ==
  (lastCall.op = "applyConstraints" /\ lastErr = NoError) =>
    LET again == invoke("applyConstraints", <<Store, lastVal, Fuel>>)
    IN /\ Ok(again)
       /\ again.val = lastVal
       /\ again.cs = constraints

-----------------------------------------------------------------------------
(* Instantiation of schemas: extractFreeVariablesAndGenFresh called on      *)
(* schemas, as the Identifier, operator and assignment cases of _infer call *)
(* it on what the environment holds (typeChecker.ts, lines 659, 867, 991,   *)
(* 1069), at any value of typeIdCounter.                                    *)

\* The variables schemas are built of: T0 and T1 once typeIdCounter has issued
\* them, and the addable A of the predeclared operators.
SchemaVars == {tVar(v) : v \in {"T0", "T1", "A"} \cap DOMAIN kinds}

SchemaTerms ==
  {tNumber}
  \cup SchemaVars
  \cup {tList(a) : a \in SchemaVars}
  \cup {tPair(a, b) : a \in SchemaVars, b \in SchemaVars \cup {tBool}}
  \cup {tFunc(<<>>, tNumber)}
  \cup {tFunc(<<a>>, b) : a \in SchemaVars, b \in SchemaVars}
  \cup {tFunc(<<tAddable("A"), tList(a)>>, tPair(a, tAddable("A"))) : a \in SchemaVars}

\* typeIdCounter has issued T0 .. T(n-1); each has the constraint inference
\* has left it with.
InstantiateInit ==
  /\ constraints = <<>>
  /\ \E n \in 0..MaxIssued :
       /\ typeIdCounter = n
       /\ kinds \in {k \in [{varName(i) : i \in 0..(n - 1)} \cup {"A"} -> {"none", "addable"}] :
                       k["A"] = "addable"}
  /\ lastCall = [op |-> "none"]
  /\ lastErr = NoError
  /\ lastVal = Null
  /\ prevConstraints = <<>>
  /\ prevKinds = kinds
  /\ calls = 0
  /\ source = Null
  /\ ast = Null
  /\ typeErrors = <<>>
  /\ diagnostics = <<>>
  /\ thrown = NoError
  /\ first = <<>>
  /\ runs = 0
  /\ lastRun = "none"
  /\ rechecked = "no"
  /\ envs = <<initialEnv>>
  /\ rebound = {}
  /\ moduleEnv = initialEnv2
  /\ returned = <<>>

Instantiate(polyType) ==
  /\ calls < MaxInstantiations
  /\ \E r \in {extractFreeVariablesAndGenFresh(
                   [cs |-> constraints, kinds |-> kinds, err |-> NoError, val |-> Null,
                    typeIdCounter |-> typeIdCounter, typeErrors |-> typeErrors],
                   polyType)} :
       /\ kinds' = r.kinds
       /\ typeIdCounter' = r.typeIdCounter
       /\ lastVal' = r.val
       /\ lastErr' = r.err
  /\ lastCall' = [op |-> "extractFreeVariablesAndGenFresh", polyType |-> polyType]
  /\ prevKinds' = kinds
  /\ calls' = calls + 1
  /\ UNCHANGED <<constraints, prevConstraints, source, ast, typeErrors, diagnostics,
                 thrown, first, runs, lastRun, rechecked, envs, rebound,
                 typeCheck2Vars>>

InstantiateNext == \E type \in SchemaTerms : Instantiate(tForAll(type))

InstantiateSpec == InstantiateInit /\ [][InstantiateNext]_vars

\* r is t with every variable v replaced by the variable named m[v.name].
RECURSIVE isRenaming(_, _, _)
isRenaming(t, r, m) ==
  /\ "kind" \in DOMAIN r
  /\ r.kind = t.kind
  /\ CASE t.kind = "primitive" -> r = t
       [] t.kind = "variable" -> r = tVar(m[t.name])
       [] t.kind \in {"list", "array"} -> isRenaming(t.elementType, r.elementType, m)
       [] t.kind = "pair" -> /\ isRenaming(t.headType, r.headType, m)
                             /\ isRenaming(t.tailType, r.tailType, m)
       [] t.kind = "function" ->
            /\ Len(r.parameterTypes) = Len(t.parameterTypes)
            /\ \A i \in DOMAIN t.parameterTypes :
                 isRenaming(t.parameterTypes[i], r.parameterTypes[i], m)
            /\ isRenaming(t.returnType, r.returnType, m)

\* C21 (instantiation): extractFreeVariablesAndGenFresh returns the schema's
\* term with each distinct free variable replaced, at all of its occurrences,
\* by one variable of its own that did not exist before the call and has the
\* constraint of the variable it replaces; primitives stay, and the variables
\* of the schema's term keep their constraints.
C21_InstantiationRenamesFreeVariablesFreshly ==
  lastCall.op = "extractFreeVariablesAndGenFresh" =>
    LET monoType == lastCall.polyType.polyType
        free == {v \in DOMAIN prevKinds : contains(monoType, v)}
    IN /\ lastErr = NoError
       /\ \E m \in [free -> DOMAIN kinds \ DOMAIN prevKinds] :
            /\ \A v, w \in free : m[v] = m[w] => v = w
            /\ \A v \in free : kinds[m[v]] = prevKinds[v]
            /\ isRenaming(monoType, lastVal, m)
       /\ \A v \in DOMAIN prevKinds : kinds[v] = prevKinds[v]

\* (A, List(T0)) => Pair(T0, A) with T0 addable, instantiated a second time:
\* both variables get new names, each at both of its occurrences.
C21_Witness_TwoVariablesTwice ==
  /\ calls = 2
  /\ lastCall.op = "extractFreeVariablesAndGenFresh"
  /\ lastCall.polyType =
       tForAll(tFunc(<<tAddable("A"), tList(tVar("T0"))>>, tPair(tVar("T0"), tAddable("A"))))
  /\ prevKinds["T0"] = "addable"
  /\ typeIdCounter = 5
  /\ lastVal = tFunc(<<tVar("T3"), tList(tVar("T4"))>>, tPair(tVar("T4"), tVar("T3")))
  /\ kinds["T3"] = "addable" /\ kinds["T4"] = "addable"

-----------------------------------------------------------------------------
(* typeCheck driven by a caller: a program is parsed, checked, and checked *)
(* again, with typeCheck calls on other programs in between.               *)

num(raw) == Literal("number", raw)
str(raw) == Literal("string", raw)
bool(raw) == Literal("boolean", raw)
nullLiteral == Literal("object", "null")
call(callee, arguments) == CallExpression(Identifier(callee), arguments)
const(id, init) == VariableDeclaration("const", id, init)
statement(expression) == ExpressionStatement(expression)
func(id, params, body) ==
  FunctionDeclaration(id, [i \in DOMAIN params |-> Identifier(params[i])],
                      BlockStatement(body))

\* The statements programs are made of, each a construct one case of _infer
\* handles (typeChecker.ts, lines 625-1085).
Statements == <<
  const("x", num("1")),                                   \* const x = 1;
  VariableDeclaration("let", "v", num("1")),              \* let v = 1;
  const("a", ArrayExpression(<<num("1"), num("2")>>)),    \* const a = [1, 2];
  const("k", ArrowFunctionExpression(<<Identifier("y")>>, Identifier("y"))),
                                                          \* const k = y => y;
  func("f", <<>>, <<ReturnStatement(Identifier("f"))>>),  \* function f() { return f; }
  func("g", <<"y">>,                                      \* function g(y) { return y(y); }
       <<ReturnStatement(CallExpression(Identifier("y"), <<Identifier("y")>>))>>),
  func("h", <<"z">>, <<ReturnStatement(Identifier("z"))>>), \* function h(z) { return z; }
  statement(MemberExpression(Identifier("a"), num("0"))), \* a[0];
  statement(MemberExpression(Identifier("x"), num("0"))), \* x[0];
  statement(call("h", <<num("1")>>)),                     \* h(1);
  statement(call("h", <<num("1"), num("2")>>)),           \* h(1, 2);
  statement(call("x", <<num("1")>>)),                     \* x(1);
  statement(BinaryExpression("+", Identifier("x"), str("'a'"))),   \* x + 'a';
  statement(LogicalExpression("&&", bool("true"), Identifier("x"))), \* true && x;
  statement(UnaryExpression("!", Identifier("x"))),       \* !x;
  statement(ConditionalExpression(bool("true"), num("1"), Identifier("x"))),
                                                          \* true ? 1 : x;
  statement(AssignmentExpression(Identifier("v"), bool("true"))),  \* v = true;
  statement(AssignmentExpression(Identifier("x"), num("2"))),      \* x = 2;
  statement(AssignmentExpression(MemberExpression(Identifier("a"), num("0")),
                                 bool("true"))),          \* a[0] = true;
  IfStatement(Identifier("x"),                            \* if (x) { 1; } else { 'a'; }
              BlockStatement(<<statement(num("1"))>>),
              BlockStatement(<<statement(str("'a'"))>>)),
  WhileStatement(bool("true"),                            \* while (true) { x; }
                 BlockStatement(<<statement(Identifier("x"))>>)) >>

\* Programs of up to MaxStatements different statements, in any order.
StatementLists ==
  UNION {{l \in [1..n -> DOMAIN Statements] : \A i, j \in 1..n : i # j => l[i] # l[j]}
           : n \in 1..MaxStatements}

programOf(l) == parse(Program([i \in DOMAIN l |-> Statements[l[i]]]))

\* pair(e1, pair(e2, ... null))
RECURSIVE chain(_)
chain(heads) ==
  IF heads = <<>> THEN nullLiteral
  ELSE call("pair", <<Head(heads), chain(Tail(heads))>>)

\* Head expressions, grouped by their type.
HeadGroups ==
  { {num("1"), num("2")},
    {str("'a'"), str("'b'")},
    {bool("true")},
    {nullLiteral},
    {call("pair", <<num("1"), nullLiteral>>)},
    {ArrayExpression(<<num("1")>>)} }

ChainHeads ==
  UNION {UNION {[1..n -> group] : n \in 1..MaxChain} : group \in HeadGroups}

\* const p = pair(e1, pair(e2, ... null));
chainProgram(heads) == parse(Program(<<const("p", chain(heads))>>))

\* Two heads of different types.  null is the empty list of any element
\* type, so null and the list pair(1, null) are not of different types.
MixedHeads ==
  {hs \in (UNION HeadGroups) \X (UNION HeadGroups) :
     /\ \A group \in HeadGroups : ~({hs[1], hs[2]} \subseteq group)
     /\ {hs[1], hs[2]} # {nullLiteral, call("pair", <<num("1"), nullLiteral>>)}}

\* const x = l; const y = r; const z = x operator y;
binaryProgram(operator, l, r) ==
  parse(Program(<<const("x", l), const("y", r),
                  const("z", BinaryExpression(operator, Identifier("x"), Identifier("y")))>>))

\* const x = l; const y = r; const z = x + y;
sumProgram(l, r) == binaryProgram("+", l, r)

Addends == {num("5"), num("6"), str("'bob'")}

\* const f = x => x; f(a); f(b);
identityProgram(a, b) ==
  parse(Program(<<const("f", ArrowFunctionExpression(<<Identifier("x")>>, Identifier("x"))),
                  statement(call("f", <<a>>)), statement(call("f", <<b>>))>>))

IdentityArguments == {num("1"), bool("true"), str("'a'")}

\* function fact(n) { return n === 0 ? 1 : n * fact(n - 1); }
factProgram ==
  parse(Program(<<
    func("fact", <<"n">>,
         <<ReturnStatement(ConditionalExpression(
             BinaryExpression("===", Identifier("n"), num("0")),
             num("1"),
             BinaryExpression("*", Identifier("n"),
                              call("fact", <<BinaryExpression("-", Identifier("n"),
                                                              num("1"))>>))))>>)>>))

\* Test expressions of every syntactic form, each with the type it has
\* after const x = 1; const b = true;
Tests ==
  { <<num("1"), tNumber>>, <<str("'a'"), tString>>, <<bool("true"), tBool>>,
    <<Identifier("x"), tNumber>>, <<Identifier("b"), tBool>>,
    <<BinaryExpression("+", Identifier("x"), num("1")), tNumber>>,
    <<BinaryExpression("===", Identifier("x"), num("1")), tBool>>,
    <<UnaryExpression("!", Identifier("b")), tBool>>,
    <<call("math_abs", <<Identifier("x")>>), tNumber>>,
    <<call("is_number", <<Identifier("x")>>), tBool>> }

TestForms == {"if", "conditional", "while"}

\* const x = 1; const b = true; and then one of
\*   if (test) { 1; } else { 2; }     test ? 1 : 2;     while (test) { 1; }
testedProgram(form, test) ==
  parse(Program(<<
    const("x", num("1")), const("b", bool("true")),
    CASE form = "if" ->
           IfStatement(test, BlockStatement(<<statement(num("1"))>>),
                       BlockStatement(<<statement(num("2"))>>))
      [] form = "conditional" ->
           statement(ConditionalExpression(test, num("1"), num("2")))
      [] form = "while" ->
           WhileStatement(test, BlockStatement(<<statement(num("1"))>>))>>))

assign(name, right) == statement(AssignmentExpression(Identifier(name), right))

\* Programs with one assignment to an identifier, each with whether the
\* innermost visible binding of the identifier is a const one.
Assignments ==
  { \* const x = 1; x = 'a';
    <<<<const("x", num("1")), assign("x", str("'a'"))>>, TRUE>>,
    \* function h(z) { return z; } h = 1;
    <<<<func("h", <<"z">>, <<ReturnStatement(Identifier("z"))>>), assign("h", num("1"))>>, TRUE>>,
    \* math_PI = 3;
    <<<<assign("math_PI", num("3"))>>, TRUE>>,
    \* let v = 1; v = 2;
    <<<<VariableDeclaration("let", "v", num("1")), assign("v", num("2"))>>, FALSE>>,
    \* function f(y) { y = 2; }
    <<<<func("f", <<"y">>, <<assign("y", num("2"))>>)>>, FALSE>>,
    \* const x = 1; function f(x) { x = 2; }
    <<<<const("x", num("1")), func("f", <<"x">>, <<assign("x", num("2"))>>)>>, FALSE>>,
    \* const x = 1; const k = x => x = 2;
    <<<<const("x", num("1")),
        const("k", ArrowFunctionExpression(<<Identifier("x")>>,
                                           AssignmentExpression(Identifier("x"), num("2"))))>>,
      FALSE>>,
    \* const x = 1; { let x = 2; x = 3; }
    <<<<const("x", num("1")),
        BlockStatement(<<VariableDeclaration("let", "x", num("2")), assign("x", num("3"))>>)>>,
      FALSE>> }

\* i = i + 1
increment(name) ==
  AssignmentExpression(Identifier(name), BinaryExpression("+", Identifier(name), num("1")))

\* Programs with a for statement.
ForPrograms ==
  { \* for (let i = 0; i < 3; i = i + 1) { i; }
    <<ForStatement(VariableDeclaration("let", "i", num("0")),
                   BinaryExpression("<", Identifier("i"), num("3")), increment("i"),
                   BlockStatement(<<statement(Identifier("i"))>>))>>,
    \* let i = 0; for (i = 1; i < 3; i = i + 1) { const y = i; }
    <<VariableDeclaration("let", "i", num("0")),
      ForStatement(AssignmentExpression(Identifier("i"), num("1")),
                   BinaryExpression("<", Identifier("i"), num("3")), increment("i"),
                   BlockStatement(<<const("y", Identifier("i"))>>))>>,
    \* const i = true; for (let i = 0; i < 3; i = i + 1) { i; } i;
    <<const("i", bool("true")),
      ForStatement(VariableDeclaration("let", "i", num("0")),
                   BinaryExpression("<", Identifier("i"), num("3")), increment("i"),
                   BlockStatement(<<statement(Identifier("i"))>>)),
      statement(Identifier("i"))>> }

Sources ==
  {programOf(l) : l \in StatementLists}
    \cup {chainProgram(hs) : hs \in ChainHeads \cup MixedHeads}
    \cup {sumProgram(l, r) : l, r \in Addends}
    \cup {identityProgram(a, b) : a, b \in IdentityArguments}
    \cup {factProgram}
    \cup {testedProgram(form, t[1]) : form \in TestForms, t \in Tests}
    \cup {parse(Program(a[1])) : a \in Assignments}
    \cup {parse(Program(body)) : body \in ForPrograms}

\* The programs of the typeCheck calls made in between.
OtherSources ==
  { parse(Program(<<statement(BinaryExpression("+", str("'a'"), str("'b'")))>>)),
    programOf(<<1, 9>>) }

Globals == [typeIdCounter |-> typeIdCounter, typeErrors |-> typeErrors, kinds |-> kinds,
            initialEnv |-> envs[1]]

\* What the caller has after typeCheck(program).
Outcome == [program |-> ast, diagnostics |-> diagnostics, thrown |-> thrown]

TypeCheckInit ==
  /\ source \in Sources
  /\ ast = source
  /\ typeIdCounter = 0
  /\ typeErrors = <<>>
  /\ diagnostics = <<>>
  /\ thrown = NoError
  /\ first = <<>>
  /\ runs = 0
  /\ lastRun = "none"
  /\ rechecked = "no"
  /\ envs = <<initialEnv>>
  /\ rebound = {}
  /\ moduleEnv = initialEnv2
  /\ returned = <<>>
  /\ kinds = initialEnvKinds
  /\ constraints = <<>>
  /\ lastCall = [op |-> "none"]
  /\ lastErr = NoError
  /\ lastVal = Null
  /\ prevConstraints = <<>>
  /\ prevKinds = initialEnvKinds
  /\ calls = 0

\* The caller keeps what typeCheck(ast) returned or threw.
checked(node, how) ==
  \E r \in {invoke("typeCheck", <<node, Globals>>)} :
    /\ ast' = r.val
    /\ typeIdCounter' = r.typeIdCounter
    /\ typeErrors' = r.typeErrors
    /\ kinds' = r.kinds
    /\ diagnostics' = IF Ok(r) THEN r.typeErrors ELSE <<>>
    /\ thrown' = r.err
    /\ envs' = r.envs
    /\ rebound' = r.rebound
    /\ first' = IF first = <<>>
                THEN <<[program |-> ast', diagnostics |-> diagnostics', thrown |-> thrown']>>
                ELSE first
    /\ runs' = runs + 1
    /\ lastRun' = how
    /\ rechecked' = IF how # "held" \/ first = <<>> THEN rechecked
                    ELSE IF lastRun = "other" THEN "after another call"
                    ELSE "at once"
    /\ UNCHANGED <<source, storeVars, typeCheck2Vars>>

\* typeCheck(ast) on the AST the caller holds, annotated or not.
TypeCheck ==
  /\ runs < MaxRuns
  /\ checked(ast, "held")

\* An independent run: the source is parsed anew and checked.
TypeCheckParsedAnew ==
  /\ runs < MaxRuns
  /\ checked(source, "parsed anew")

\* typeCheck of another program.
TypeCheckOther(other) ==
  /\ runs < MaxRuns
  /\ \E r \in {invoke("typeCheck", <<other, Globals>>)} :
       /\ typeIdCounter' = r.typeIdCounter
       /\ typeErrors' = r.typeErrors
       /\ kinds' = r.kinds
       /\ envs' = [envs EXCEPT ![1] = r.envs[1]]
  /\ runs' = runs + 1
  /\ lastRun' = "other"
  /\ UNCHANGED <<source, ast, diagnostics, thrown, first, rechecked, rebound, storeVars,
                 typeCheck2Vars>>

TypeCheckNext ==
  \/ TypeCheck
  \/ TypeCheckParsedAnew
  \/ \E other \in OtherSources : TypeCheckOther(other)

TypeCheckSpec == TypeCheckInit /\ [][TypeCheckNext]_vars

-----------------------------------------------------------------------------
(* The substitution-based typeCheck driven by a caller, as the tests of    *)
(* typeChecker.test.ts do: a program is parsed and checked, once or more,  *)
(* with checks of other programs before and in between.                    *)

\* The programs of the binary expression tests
\* (src/__tests__/typeChecker.test.ts, lines 6-28), with each literal on
\* either side.
BinarySources == {binaryProgram(operator, l, r) : operator \in {"+", "==="}, l, r \in Addends}

\* The programs of the other calls.
OtherSources2 ==
  { \* const y = true; !y;
    parse(Program(<<const("y", bool("true")),
                    statement(UnaryExpression("!", Identifier("y")))>>)),
    \* function f(x) { return x; } const z = f(1);
    parse(Program(<<func("f", <<"x">>, <<ReturnStatement(Identifier("x"))>>),
                    const("z", call("f", <<num("1")>>))>>)),
    \* const x = 'a'; if (x === 1) { x; } else { }
    parse(Program(<<const("x", str("'a'")),
                    IfStatement(BinaryExpression("===", Identifier("x"), num("1")),
                                BlockStatement(<<statement(Identifier("x"))>>),
                                BlockStatement(<<>>))>>)),
    \* const k = y => y; k(true) ? 1 : 2; while (true) { }
    parse(Program(<<const("k", ArrowFunctionExpression(<<Identifier("y")>>, Identifier("y"))),
                    statement(ConditionalExpression(call("k", <<bool("true")>>),
                                                    num("1"), num("2"))),
                    WhileStatement(bool("true"), BlockStatement(<<>>))>>)) }

TypeCheck2Init ==
  /\ source \in BinarySources
  /\ ast = source
  /\ typeIdCounter = 0
  /\ typeErrors = <<>>
  /\ diagnostics = <<>>
  /\ thrown = NoError
  /\ first = <<>>
  /\ runs = 0
  /\ lastRun = "none"
  /\ rechecked = "no"
  /\ envs = <<initialEnv>>
  /\ rebound = {}
  /\ moduleEnv = initialEnv2
  /\ returned = <<>>
  /\ kinds = initialEnvKinds
  /\ constraints = <<>>
  /\ lastCall = [op |-> "none"]
  /\ lastErr = NoError
  /\ lastVal = Null
  /\ prevConstraints = <<>>
  /\ prevKinds = initialEnvKinds
  /\ calls = 0

\* The caller keeps what typeCheck(program) returned or threw; the module
\* keeps its initialEnv as the call left it.
checked2(program, how) ==
  /\ runs < MaxRuns
  /\ \E r \in {invoke("typeCheck2", <<program, moduleEnv>>)} :
       /\ moduleEnv' = r.env
       /\ returned' = r.val
       /\ thrown' = r.err
  /\ runs' = runs + 1
  /\ lastRun' = how
  /\ UNCHANGED <<source, ast, typeIdCounter, typeErrors, diagnostics, first, rechecked,
                 envs, rebound, kinds, storeVars>>

\* typeCheck(program) on the program of the test.
TypeCheck2 == checked2(source, "held")

\* typeCheck of another program.
TypeCheckOther2(other) == checked2(other, "other")

TypeCheck2Next ==
  \/ TypeCheck2
  \/ \E other \in OtherSources2 : TypeCheckOther2(other)

TypeCheck2Spec == TypeCheck2Init /\ [][TypeCheck2Next]_vars

-----------------------------------------------------------------------------
(* Properties of typeCheck                                                 *)

\* Every node of the tree, a node before the nodes it contains.
RECURSIVE allNodes(_)
RECURSIVE allNodesOfFields(_, _, _)
RECURSIVE allNodesOfEach(_, _)
allNodes(node) == <<node>> \o allNodesOfFields(node, childFields(node), 1)

allNodesOfFields(node, fields, i) ==
  IF i > Len(fields) THEN <<>>
  ELSE (IF fields[i][2] THEN allNodesOfEach(node[fields[i][1]], 1)
        ELSE allNodes(node[fields[i][1]]))
         \o allNodesOfFields(node, fields, i + 1)

allNodesOfEach(nodes, i) ==
  IF i > Len(nodes) THEN <<>>
  ELSE allNodes(nodes[i]) \o allNodesOfEach(nodes, i + 1)

\* The program has been checked at least once.
hasBeenChecked == first # <<>>

\* C6 (no internal error escapes): whatever the program, ill-typed ones
\* included, typeCheck returns; it never throws a UnifyError, an arity
\* error, a cyclic-reference error or an InternalTypeError to its caller.
C6_NoInternalErrorEscapesTypeCheck ==
  thrown.name \notin {"UnifyError", "InternalDifferentNumberArgumentsError",
                      "InternalCyclicReferenceError", "InternalTypeError"}

\* function f(...) { return f; }
returnsItself(decl) ==
  /\ decl.type = "FunctionDeclaration"
  /\ Len(decl.body.body) = 1
  /\ decl.body.body[1].type = "ReturnStatement"
  /\ decl.body.body[1].argument.type = "Identifier"
  /\ decl.body.body[1].argument.name = decl.id
  /\ \A i \in DOMAIN decl.params : decl.params[i].name # decl.id

\* function g(y) { return y(y); }
appliesParameterToItself(decl) ==
  /\ decl.type = "FunctionDeclaration"
  /\ Len(decl.body.body) = 1
  /\ decl.body.body[1].type = "ReturnStatement"
  /\ decl.body.body[1].argument.type = "CallExpression"
  /\ LET c == decl.body.body[1].argument IN
       /\ c.callee.type = "Identifier"
       /\ \E i \in DOMAIN decl.params : decl.params[i].name = c.callee.name
       /\ \E i \in DOMAIN c.arguments :
            c.arguments[i].type = "Identifier" /\ c.arguments[i].name = c.callee.name

\* The declaration's type would contain itself: f = () -> f, or
\* g = (y) -> r with y = (y) -> r.  Neither is a list shape.
typeWouldBeCyclic(decl) == returnsItself(decl) \/ appliesParameterToItself(decl)

\* C7 (cyclic declarations are reported): once a program is checked, for
\* every function declaration in it whose type would be cyclic and is no
\* list shape, typeCheck has returned and the returned diagnostics contain
\* a CyclicReference diagnostic for that declaration.
C7_CyclicDeclarationsAreReported ==
  hasBeenChecked =>
    \A i \in DOMAIN ast.body :
      typeWouldBeCyclic(ast.body[i]) =>
        /\ thrown = NoError
        /\ \E k \in DOMAIN diagnostics : diagnostics[k] = CyclicReferenceError(ast.body[i])

\* C8 (determinism, idempotence): every typeCheck of the program, on a new
\* parse or on the AST an earlier call annotated, right away or after
\* typeCheck calls on other programs, leaves the same inferredType on every
\* node, variable names included, and returns the same diagnostics as the
\* first one did.
C8_EveryCheckGivesTheFirstOutcome ==
  hasBeenChecked => Outcome = first[1]

\* The annotated AST was checked again after a typeCheck of another
\* program, and the check gave diagnostics.
C8_Witness_RecheckedAfterAnotherCall ==
  /\ hasBeenChecked
  /\ rechecked = "after another call"
  /\ lastRun = "held"
  /\ diagnostics # <<>>
  /\ Outcome = first[1]

\* C9 (arity preservation): once a program is checked without a throw, every
\* call expression no diagnostic was emitted for has a callee whose
\* resolved type is a function type with as many parameters as the call has
\* arguments.
C9_CheckedCallsMatchTheCalleeArity ==
  (hasBeenChecked /\ thrown = NoError) =>
    LET nodes == allNodes(ast) IN
    \A n \in DOMAIN nodes :
      (/\ nodes[n].type = "CallExpression"
       /\ \A k \in DOMAIN diagnostics : diagnostics[k].node # nodes[n].loc)
        => /\ nodes[n].callee.inferredType.kind = "function"
           /\ Len(nodes[n].callee.inferredType.parameterTypes) = Len(nodes[n].arguments)

\* The head expressions e1, e2, ... of pair(e1, pair(e2, ... null)).
RECURSIVE headsOf(_)
headsOf(e) ==
  IF e.type = "CallExpression" THEN <<e.arguments[1]>> \o headsOf(e.arguments[2])
  ELSE <<>>

ChainSources == {chainProgram(hs) : hs \in ChainHeads}

\* C10 (pair chains are lists): for const p = pair(e1, pair(e2, ... null))
\* with heads of one type t, typeCheck returns no diagnostic and the chain
\* resolves to Pair(t, List(t)), t being what every head resolves to (the
\* primitive type of the literal when the heads are number, string or
\* boolean literals).
C10_PairChainResolvesToPairOfList ==
  (hasBeenChecked /\ source \in ChainSources) =>
    /\ thrown = NoError
    /\ diagnostics = <<>>
    /\ LET e == ast.body[1].init
           heads == headsOf(e)
           t == heads[1].inferredType
       IN /\ e.inferredType = tPair(t, tList(t))
          /\ \A i \in DOMAIN heads : heads[i].inferredType = t
          /\ (heads[1].type = "Literal" /\ heads[1].typeOf # "object")
               => t = tPrimitive(heads[1].typeOf)

\* const p = pair(1, pair(2, null)); has been checked and p's initialiser
\* has the type Pair(number, List(number)).
C10_Witness_PairOneTwoNull ==
  /\ hasBeenChecked
  /\ source = chainProgram(<<num("1"), num("2")>>)
  /\ diagnostics = <<>>
  /\ ast.body[1].init.inferredType = tPair(tNumber, tList(tNumber))

MixedChainSources == {chainProgram(hs) : hs \in MixedHeads}

\* C11 (no heterogeneous list): for const p = pair(e1, pair(e2, null)) with
\* heads e1 and e2 of different types, typeCheck returns, and what it returns
\* holds at least one InvalidArgumentTypes or ArrayAssignment diagnostic.
C11_MixedPairChainIsRejected ==
  (hasBeenChecked /\ source \in MixedChainSources) =>
    /\ thrown = NoError
    /\ \E k \in DOMAIN diagnostics :
         diagnostics[k].kind \in {"InvalidArgumentTypes", "ArrayAssignment"}

\* const p = pair(1, pair('a', null)); has been checked and the outer call
\* of pair has an InvalidArgumentTypes diagnostic.
C11_Witness_PairOneStringNull ==
  /\ hasBeenChecked
  /\ source = chainProgram(<<num("1"), str("'a'")>>)
  /\ \E k \in DOMAIN diagnostics :
       /\ diagnostics[k].kind = "InvalidArgumentTypes"
       /\ diagnostics[k].node = ast.body[1].init.loc

SumSources == {sumProgram(l, r) : l, r \in Addends}

\* C12 (+ on const-bound literals): for const x = l; const y = r;
\* const z = x + y; typeCheck returns; with two numbers there is no
\* diagnostic and x + y resolves to number; with a number and a string there
\* is exactly one diagnostic, an InvalidArgumentTypes on x + y, and the
\* operands x and y resolve to number and string as the literals are.
C12_SumOfConstBoundLiterals ==
  (hasBeenChecked /\ source \in SumSources) =>
    LET l == ast.body[1].init
        r == ast.body[2].init
        sum == ast.body[3].init
    IN /\ thrown = NoError
       /\ (l.typeOf = "number" /\ r.typeOf = "number")
            => /\ diagnostics = <<>>
               /\ sum.inferredType = tNumber
       /\ {l.typeOf, r.typeOf} = {"number", "string"}
            => /\ Len(diagnostics) = 1
               /\ diagnostics[1].kind = "InvalidArgumentTypes"
               /\ diagnostics[1].node = sum.loc
               /\ sum.left.inferredType = tPrimitive(l.typeOf)
               /\ sum.right.inferredType = tPrimitive(r.typeOf)

\* const x = 5; const y = 'bob'; const z = x + y; has been checked: one
\* diagnostic, on x + y, with x a number and y a string.
C12_Witness_NumberPlusString ==
  /\ hasBeenChecked
  /\ source = sumProgram(num("5"), str("'bob'"))
  /\ Len(diagnostics) = 1
  /\ diagnostics[1].node = ast.body[3].init.loc
  /\ ast.body[3].init.left.inferredType = tNumber
  /\ ast.body[3].init.right.inferredType = tString

IdentitySources == {identityProgram(a, b) : a, b \in IdentityArguments}

\* C13 (declared names are generalised before later statements): for
\* const f = x => x; f(a); f(b); with literals a and b of any types,
\* typeCheck returns no diagnostic, f's type is a function whose parameter
\* and result are the same type variable, and each call has the type of its
\* own argument: each use of f after the declarations instantiates f's
\* schema with fresh variables.
C13_LaterUsesInstantiateTheSchema ==
  (hasBeenChecked /\ source \in IdentitySources) =>
    LET f == ast.body[1].init.inferredType IN
    /\ thrown = NoError
    /\ diagnostics = <<>>
    /\ f.kind = "function"
    /\ Len(f.parameterTypes) = 1
    /\ f.parameterTypes[1].kind = "variable"
    /\ f.returnType = f.parameterTypes[1]
    /\ \A i \in {2, 3} :
         LET c == ast.body[i].expression IN
         /\ c.inferredType = tPrimitive(c.arguments[1].typeOf)
         /\ c.callee.inferredType = tFunc(<<c.inferredType>>, c.inferredType)

\* const f = x => x; f(1); f(true); has been checked: no diagnostic, f(1)
\* is a number and f(true) a boolean.
C13_Witness_IdentityOfNumberAndBoolean ==
  /\ hasBeenChecked
  /\ source = identityProgram(num("1"), bool("true"))
  /\ diagnostics = <<>>
  /\ ast.body[2].expression.inferredType = tNumber
  /\ ast.body[3].expression.inferredType = tBool

\* C14 (declared names are in scope while the declarations are inferred):
\* for function fact(n) { return n === 0 ? 1 : n * fact(n - 1); } typeCheck
\* returns no diagnostic, fact's function type resolves to
\* (number) => number, and the use of fact in its own body has that type.
C14_RecursiveReferenceSharesTheDeclarationType ==
  (hasBeenChecked /\ source = factProgram) =>
    /\ thrown = NoError
    /\ diagnostics = <<>>
    /\ ast.body[1].functionInferredType = tFunc(<<tNumber>>, tNumber)
    /\ ast.body[1].body.body[1].argument.alternate.right.callee.inferredType
         = tFunc(<<tNumber>>, tNumber)

\* fact has been checked and has the type (number) => number.
C14_Witness_FactIsNumberToNumber ==
  /\ hasBeenChecked
  /\ source = factProgram
  /\ ast.body[1].functionInferredType = tFunc(<<tNumber>>, tNumber)
  /\ ast.body[1].body.body[1].argument.inferredType = tNumber

\* C15 (diagnostics in source order): when typeCheck returns, of any two
\* diagnostics of the returned list the earlier one is about the node that
\* starts earlier in the source, a node before the nodes it contains.
\* (node.loc numbers the nodes in that order.)
C15_DiagnosticsAreInSourceOrder ==
  (hasBeenChecked /\ thrown = NoError) =>
    \A i, j \in DOMAIN diagnostics :
      i < j => diagnostics[i].node <= diagnostics[j].node

\* The names the node brings into scope.
namesDeclaredBy(node) ==
  (IF isDeclaration(node) THEN {node.id} ELSE {})
    \cup (IF node.type \in {"ArrowFunctionExpression", "FunctionDeclaration"}
          THEN {node.params[i].name : i \in DOMAIN node.params}
          ELSE {})

\* An identifier whose name nothing in the program declares and which is not
\* predeclared: inferring it emits an UndefinedIdentifier diagnostic.
isUndeclared(node) ==
  /\ node.type = "Identifier"
  /\ node.name \notin DOMAIN initialEnv.typeMap
  /\ LET nodes == allNodes(ast) IN
     \A n \in DOMAIN nodes : node.name \notin namesDeclaredBy(nodes[n])

\* C16 (a cyclic declaration abandons only its own subtree): when typeCheck
\* returns a CyclicReference diagnostic for a function declaration of the
\* program, every statement of the program other than that declaration has
\* still been inferred: each use of an undeclared name in it has its
\* UndefinedIdentifier diagnostic.
C16_CyclicDeclarationAbandonsOnlyItself ==
  (hasBeenChecked /\ thrown = NoError) =>
    \A d \in DOMAIN ast.body :
      (\E k \in DOMAIN diagnostics : diagnostics[k] = CyclicReferenceError(ast.body[d]))
        => \A i \in DOMAIN ast.body \ {d} :
             LET nodes == allNodes(ast.body[i]) IN
             \A n \in DOMAIN nodes :
               isUndeclared(nodes[n])
                 => \E k \in DOMAIN diagnostics :
                      diagnostics[k] = UndefinedIdentifierError(nodes[n], nodes[n].name)

\* C17 (the substitution-based typeCheck on binary expressions): for
\* const x = l; const y = r; const z = x op y; typeCheck throws an error
\* when op is + and one of l and r is a number and the other a string, and
\* throws nothing when op is + or === and both are numbers; on the first
\* check of the program and on every later one.
C17_SubstitutionCheckOfBinaryExpressions ==
  (lastRun = "held" /\ source \in BinarySources) =>
    LET operator == source.body[3].init.operator
        l == source.body[1].init.typeOf
        r == source.body[2].init.typeOf
    IN /\ (operator = "+" /\ {l, r} = {"number", "string"}) => thrown.name = "Error"
       /\ (l = "number" /\ r = "number")
            => /\ thrown = NoError
               /\ Len(returned) = 3

\* const x = 5; const y = 'bob'; const z = x + y; was checked after a call
\* on another program had changed the module's environment, and typeCheck
\* threw the mismatch of string and number.
C17_Witness_NumberPlusStringThrows ==
  /\ lastRun = "held"
  /\ runs > 1
  /\ source = sumProgram(num("5"), str("'bob'"))
  /\ thrown = Error("Type Mismatch")
  /\ moduleEnv["x"] = tNamedNumber
  /\ moduleEnv["y"] = tNamedString


\* C23 (test conditions): for an if statement, a conditional expression and
\* a while loop whose test has a type other than boolean, whatever the form
\* of the test, the diagnostics contain an InvalidTestCondition for that
\* statement with the type received; with a boolean test they contain no
\* InvalidTestCondition.
C23_NonBooleanTestsAreReported ==
  hasBeenChecked =>
    \A form \in TestForms, t \in Tests :
      source = testedProgram(form, t[1]) =>
        LET node == IF form = "conditional" THEN source.body[3].expression
                    ELSE source.body[3]
            reports == {i \in DOMAIN diagnostics :
                          diagnostics[i].kind = "InvalidTestCondition"}
        IN /\ thrown = NoError
           /\ t[2] # tBool =>
                \E i \in reports : diagnostics[i] = InvalidTestConditionError(node, t[2])
           /\ t[2] = tBool => reports = {}


\* C24 (assignment to a const name): an assignment to an identifier gets a
\* ReassignConst diagnostic, and its right side is not unified with the
\* identifier's type, exactly when the innermost visible binding of the
\* identifier is a const declaration, a function declaration or a predeclared
\* name; an assignment to a let name or to a parameter gets none, also when
\* the name shadows a const name.
C24_ReassignConstExactlyForConstBindings ==
  hasBeenChecked =>
    \A a \in Assignments :
      source = parse(Program(a[1])) =>
        LET kindsReported == {diagnostics[i].kind : i \in DOMAIN diagnostics} IN
        /\ thrown = NoError
        /\ a[2] <=> "ReassignConst" \in kindsReported
        /\ a[2] => "DifferentAssignment" \notin kindsReported

\* C25 (scopes leave the given environment alone): inferring a Program, a
\* block, an arrow function, a function declaration or a for statement leaves
\* the Env object it was given with the bindings it found there, so that no
\* name bound in the new scope shows in the enclosing one, and the module's
\* initialEnv has after typeCheck the bindings it had before.
C25_ScopesLeaveTheGivenEnvAlone ==
  /\ rebound = {}
  /\ envs[1] = initialEnv
  \* the Env typeCheck makes of initialEnv and gives to the Program
  /\ \A env \in DOMAIN envs : env = 2 => envs[env] = initialEnv

\* const i = true; for (let i = 0; i < 3; i = i + 1) { i; } i; was checked:
\* envs[3] is the Program's scope, where i is a const boolean, envs[4] the
\* scope of the for statement, where i is a let number, and envs[5] that of
\* its body; the Env the Program was given has no i.
C25_Witness_ForStatementShadowsConst ==
  /\ hasBeenChecked
  /\ thrown = NoError
  /\ diagnostics = <<>>
  /\ Len(envs) = 5
  /\ "i" \notin DOMAIN envs[2].typeMap
  /\ "i" \in DOMAIN envs[3].typeMap \cap DOMAIN envs[4].typeMap
  /\ envs[3].typeMap["i"] = tForAll(tBool)
  /\ envs[3].declKindMap["i"] = "const"
  /\ envs[4].typeMap["i"] = tForAll(tNumber)
  /\ envs[4].declKindMap["i"] = "let"
  /\ envs[5] = envs[4]
  /\ rebound = {}

-----------------------------------------------------------------------------
(* returnBlockValueNodeIndexFor called on the body of a Program or block,   *)
(* as the Program/BlockStatement case of _infer calls it (typeChecker.ts,   *)
(* line 766).                                                              *)

\* Statements of a body: with and without a value, with and without a return,
\* nested in if statements, loops, blocks and function declarations.
BodyStatements ==
  { statement(num("1")),
    const("x", num("1")),
    ReturnStatement(num("1")),
    IfStatement(bool("true"), BlockStatement(<<ReturnStatement(num("1"))>>),
                BlockStatement(<<statement(num("2"))>>)),
    IfStatement(bool("true"), BlockStatement(<<>>),
                BlockStatement(<<const("y", num("1")), statement(num("2"))>>)),
    WhileStatement(bool("true"), BlockStatement(<<ReturnStatement(num("1"))>>)),
    BlockStatement(<<const("y", num("1"))>>),
    func("f", <<>>, <<ReturnStatement(num("1"))>>) }

Bodies == UNION {[1..n -> BodyStatements] : n \in 1..MaxBody}

BlockValueInit == Init

BlockValue(node, isTopLevelAndLastValStmt) ==
  /\ calls = 0
  /\ lastVal' = [index |-> returnBlockValueNodeIndexFor(node, isTopLevelAndLastValStmt)]
  /\ lastCall' = [op |-> "returnBlockValueNodeIndexFor", node |-> node,
                  isTopLevelAndLastValStmt |-> isTopLevelAndLastValStmt]
  /\ calls' = calls + 1
  /\ UNCHANGED <<constraints, kinds, lastErr, prevConstraints, prevKinds,
                 typeCheckVars, typeCheck2Vars>>

BlockValueNext ==
  \E body \in Bodies, isTopLevelAndLastValStmt \in BOOLEAN :
    \/ BlockValue(Program(body), isTopLevelAndLastValStmt)
    \/ BlockValue(BlockStatement(body), isTopLevelAndLastValStmt)

BlockValueSpec == BlockValueInit /\ [][BlockValueNext]_vars

\* The statements a statement is made of: itself, the branches of an if
\* statement, the body of a loop, the statements of a block, and theirs.
\* The body of a function declaration is not among them.
RECURSIVE statementsWithin(_)
statementsWithin(node) ==
  {node} \cup
  CASE node.type = "IfStatement" ->
         statementsWithin(node.consequent) \cup statementsWithin(node.alternate)
    [] node.type \in {"ForStatement", "WhileStatement"} -> statementsWithin(node.body)
    [] node.type = "BlockStatement" ->
         UNION {statementsWithin(node.body[i]) : i \in DOMAIN node.body}
    [] OTHER -> {}

isValueProducing(node) ==
  \E stmt \in statementsWithin(node) : stmt.type = "ExpressionStatement"

containsReturn(node) ==
  \E stmt \in statementsWithin(node) : stmt.type = "ReturnStatement"

\* C22 (the statement that gives a body its value): for a non-empty body
\* returnBlockValueNodeIndexFor returns an index of the body; in top-level
\* tail-value context it is the index of the last value-producing statement,
\* or of the last statement when there is none; in any other context it is
\* the smaller of the index of the first statement containing a return and
\* the index of the last statement.
C22_BlockValueIndex ==
  lastCall.op = "returnBlockValueNodeIndexFor" =>
    LET body == lastCall.node.body
        last == Len(body) - 1
        index == lastVal.index
        valued == {i \in 0..last : isValueProducing(body[i + 1])}
        returning == {i \in 0..last : containsReturn(body[i + 1])}
    IN /\ index \in 0..last
       /\ lastCall.isTopLevelAndLastValStmt =>
            IF valued = {} THEN index = last
            ELSE index \in valued /\ \A i \in valued : i <= index
       /\ ~lastCall.isTopLevelAndLastValStmt =>
            /\ index \in returning \cup {last}
            /\ \A i \in returning \cup {last} : index <= i

\* { while (true) { return 1; } 1; function f() { return 1; } } outside the
\* tail-value context: the loop, which holds a return, is the statement.
C22_Witness_ReturnInsideLoopComesFirst ==
  /\ lastCall.op = "returnBlockValueNodeIndexFor"
  /\ ~lastCall.isTopLevelAndLastValStmt
  /\ lastCall.node =
       BlockStatement(<<const("x", num("1")),
                        WhileStatement(bool("true"),
                                       BlockStatement(<<ReturnStatement(num("1"))>>)),
                        statement(num("1"))>>)
  /\ lastVal.index = 1

====
